---- MODULE Spec2Model ----
(***************************************************************************)
(* Model of the LuminaVS intent orchestrator:                              *)
(*   - classifiers.py  : rule classifier, intensity extractor, normalize,  *)
(*                       merge/guardrail                                   *)
(*   - pipeline.py     : the five stage functions                          *)
(*   - graph/dag.py    : execute_dag (the stage runner)                    *)
(*   - orchestrator.py : LuminaOrchestrator (parse_intent, its own stage   *)
(*                       methods, history, lifecycle)                      *)
(*                                                                         *)
(* Conventions.  Text is a TLA+ string.  A confidence or an intensity is   *)
(* an integer number of hundredths (0.75 is 75).  A JSON/Python value that *)
(* may have any type is a record [k, n, s]: k is its kind, n its number,   *)
(* s its text.                                                             *)
(***************************************************************************)
EXTENDS Integers, Sequences, FiniteSets, TLC

-----------------------------------------------------------------------------
(* Bounds of the model *)

\* parse_intent calls in one behaviour
MaxCalls == 2

\* the value given to LuminaOrchestrator.max_history in the model
HistCap == 1

-----------------------------------------------------------------------------
(* Python string primitives *)

\* the members of a list
Range(seq) == {seq[i] : i \in 1..Len(seq)}

Min(a, b) == IF a <= b THEN a ELSE b
Max(a, b) == IF a >= b THEN a ELSE b

Upper == <<"A","B","C","D","E","F","G","H","I","J","K","L","M",
           "N","O","P","Q","R","S","T","U","V","W","X","Y","Z">>
Lowercase == <<"a","b","c","d","e","f","g","h","i","j","k","l","m",
           "n","o","p","q","r","s","t","u","v","w","x","y","z">>

\* str.lower() on one character
LowerChar(c) ==
    IF \E i \in 1..26 : Upper[i] = c
    THEN Lowercase[CHOOSE i \in 1..26 : Upper[i] = c]
    ELSE c

\* str.lower(): every character lowered, computed half by half
RECURSIVE Lower(_)
Lower(s) ==
    IF Len(s) = 0 THEN ""
    ELSE IF Len(s) = 1 THEN LowerChar(s)
    ELSE Lower(SubSeq(s, 1, Len(s) \div 2)) \o Lower(SubSeq(s, (Len(s) \div 2) + 1, Len(s)))

IsSpace(c) == c = " "

RECURSIVE LStrip(_)
LStrip(s) == IF Len(s) > 0 /\ IsSpace(SubSeq(s, 1, 1)) THEN LStrip(Tail(s)) ELSE s

RECURSIVE RStrip(_)
RStrip(s) ==
    IF Len(s) > 0 /\ IsSpace(SubSeq(s, Len(s), Len(s)))
    THEN RStrip(SubSeq(s, 1, Len(s) - 1))
    ELSE s

\* str.strip()
Strip(s) == RStrip(LStrip(s))

\* `kw in s` : substring containment
Contains(s, kw) ==
    \E i \in 1..(Len(s) - Len(kw) + 1) : SubSeq(s, i, i + Len(kw) - 1) = kw

\* any(kw in s for kw in kws)
ContainsAny(s, kws) == \E i \in 1..Len(kws) : Contains(s, kws[i])

\* s.replace(old, "") : left to right, non-overlapping; the text before the first
\* occurrence is kept and the search goes on after the occurrence
RECURSIVE Remove(_, _)
Remove(s, old) ==
    IF ~Contains(s, old) THEN s
    ELSE LET i == CHOOSE k \in 1..(Len(s) - Len(old) + 1) :
                      /\ SubSeq(s, k, k + Len(old) - 1) = old
                      /\ \A j \in 1..(k - 1) : SubSeq(s, j, j + Len(old) - 1) # old
         IN SubSeq(s, 1, i - 1) \o Remove(SubSeq(s, i + Len(old), Len(s)), old)

Digits == <<"0","1","2","3","4","5","6","7","8","9">>
IsDigit(c) == \E i \in 1..10 : Digits[i] = c
DigitVal(c) == (CHOOSE i \in 1..10 : Digits[i] = c) - 1

\* int(s) for a string of digits
RECURSIVE StrToInt(_)
StrToInt(s) ==
    IF Len(s) = 0 THEN 0
    ELSE 10 * StrToInt(SubSeq(s, 1, Len(s) - 1)) + DigitVal(SubSeq(s, Len(s), Len(s)))

\* str(n) for an integer n >= 0
RECURSIVE IntToStr(_)
IntToStr(n) == IF n < 10 THEN Digits[n + 1] ELSE IntToStr(n \div 10) \o Digits[(n % 10) + 1]

\* repr of the float h/100, h >= 0 : 30 -> "0.3", 5 -> "0.05", 150 -> "1.5", 100 -> "1.0"
FloatStr(h) ==
    IntToStr(h \div 100) \o "." \o
        (IF h % 10 = 0 THEN IntToStr((h % 100) \div 10)
         ELSE IntToStr((h % 100) \div 10) \o IntToStr(h % 10))

-----------------------------------------------------------------------------
(* Values of any type: [k |-> kind, n |-> number, s |-> text] *)

JV(k, n, s) == [k |-> k, n |-> n, s |-> s]
Absent == JV("absent", 0, "")           \* the key is not in the mapping
Null == JV("null", 0, "")               \* None
Num(n) == JV("num", n, "")
Str(s) == JV("str", 0, s)
\* a mapping: empty, or the one entry s -> n/100
EmptyObj == JV("obj", 0, "")
Obj(key, n) == JV("obj", n, key)
\* a list, kept as its JSON text
List(s) == JV("list", 0, s)

\* Python truth value
Truthy(v) ==
    CASE v.k = "absent" -> FALSE
      [] v.k = "null" -> FALSE
      [] v.k = "num" -> v.n # 0
      [] v.k = "str" -> v.s # ""
      [] v.k = "obj" -> v.s # ""
      [] v.k = "list" -> v.s # "[]"
      [] OTHER -> TRUE

\* isinstance(v, dict)
IsDict(v) == v.k = "obj"

-----------------------------------------------------------------------------
(* json.loads / json.dumps on the texts the model uses *)

\* position of the first occurrence of the one-character string c in s, 0 if none
FirstIndex(s, c) ==
    IF \E i \in 1..Len(s) : SubSeq(s, i, i) = c
    THEN CHOOSE i \in 1..Len(s) :
            /\ SubSeq(s, i, i) = c
            /\ \A j \in 1..(i - 1) : SubSeq(s, j, j) # c
    ELSE 0

AllDigits(s) == Len(s) > 0 /\ \A i \in 1..Len(s) : IsDigit(SubSeq(s, i, i))

\* a JSON number "I.F" with one or two fraction digits
IsFloatText(s) ==
    LET d == FirstIndex(s, ".") IN
    /\ d > 1
    /\ AllDigits(SubSeq(s, 1, d - 1))
    /\ Len(s) - d \in {1, 2}
    /\ AllDigits(SubSeq(s, d + 1, Len(s)))

\* its value in hundredths
FloatTextValue(s) ==
    LET d == FirstIndex(s, ".")
        frac == SubSeq(s, d + 1, Len(s))
    IN 100 * StrToInt(SubSeq(s, 1, d - 1))
         + (IF Len(frac) = 1 THEN 10 * StrToInt(frac) ELSE StrToInt(frac))

\* a JSON object text {"key": I.F}
IsOneEntryObjText(s) ==
    /\ Len(s) >= 9
    /\ SubSeq(s, 1, 2) = "{\""
    /\ SubSeq(s, Len(s), Len(s)) = "}"
    /\ LET rest == SubSeq(s, 3, Len(s) - 1)
           q == FirstIndex(rest, "\"")
       IN /\ q > 1
          /\ SubSeq(rest, q, q + 2) = "\": "
          /\ IsFloatText(SubSeq(rest, q + 3, Len(rest)))

OneEntryObj(s) ==
    LET rest == SubSeq(s, 3, Len(s) - 1)
        q == FirstIndex(rest, "\"")
    IN Obj(SubSeq(rest, 1, q - 1), FloatTextValue(SubSeq(rest, q + 3, Len(rest))))

IsListText(s) ==
    /\ Len(s) >= 2
    /\ SubSeq(s, 1, 1) = "["
    /\ SubSeq(s, Len(s), Len(s)) = "]"

IsStrText(s) ==
    /\ Len(s) >= 2
    /\ SubSeq(s, 1, 1) = "\""
    /\ SubSeq(s, Len(s), Len(s)) = "\""
    /\ ~Contains(SubSeq(s, 2, Len(s) - 1), "\"")

\* json.loads(s) raises
JsonFails(s) ==
    ~ \/ s = "{}"
      \/ IsOneEntryObjText(s)
      \/ IsListText(s)
      \/ IsStrText(s)
      \/ AllDigits(s)
      \/ s = "null"

\* json.loads(s), where it does not raise
JsonLoads(s) ==
    CASE s = "{}" -> EmptyObj
      [] IsOneEntryObjText(s) -> OneEntryObj(s)
      [] IsListText(s) -> List(s)
      [] IsStrText(s) -> Str(SubSeq(s, 2, Len(s) - 1))
      [] AllDigits(s) -> Num(StrToInt(s))
      [] OTHER -> Null

\* json.dumps(v)
JsonDumps(v) ==
    CASE v.k = "obj" ->
            IF v.s = "" THEN "{}"
            ELSE "{\"" \o v.s \o "\": " \o FloatStr(v.n) \o "}"
      [] v.k = "list" -> v.s
      [] v.k = "str" -> "\"" \o v.s \o "\""
      [] v.k = "num" -> IntToStr(v.n)
      [] OTHER -> "null"

-----------------------------------------------------------------------------
(* intent_types.py *)

IntentAction == {"set_render_mode", "add_effect", "remove_effect", "adjust_parameter",
                 "capture_frame", "start_recording", "stop_recording", "reset",
                 "help", "unknown"}

\* {m.name.lower() for m in RenderMode}
RenderMode == {"passthrough", "stylized", "segmented", "depth_map", "normal_map"}

\* {e.name.lower() for e in EffectType}
EffectType == {"none", "blur", "bloom", "color_grade", "vignette",
               "chromatic_aberration", "noise", "sharpen"}

\* clamp without the bounds: what a clamp that was left out would return
clamp_confidence_Missing(value) ==
    IF value.k = "num" THEN value.n ELSE 0

\* clamp_confidence(value): max(0.0, min(1.0, float(value))), 0.0 when float() raises
\* float() reads a number, and a string holding a decimal numeral
clamp_confidence(value) ==
    CASE value.k = "num" -> Max(0, Min(100, value.n))
      [] value.k = "str" /\ IsFloatText(Strip(value.s)) ->
            Max(0, Min(100, FloatTextValue(Strip(value.s))))
      [] value.k = "str" /\ AllDigits(Strip(value.s)) ->
            Max(0, Min(100, 100 * StrToInt(Strip(value.s))))
      [] OTHER -> 0

\* AIIntent
AIIntent(action, target, parameters, confidence, timestamp) ==
    [action |-> action, target |-> target, parameters |-> parameters,
     confidence |-> confidence, timestamp |-> timestamp]

-----------------------------------------------------------------------------
(* classifiers.py *)

\* a classification record; NoneRec stands for Python's None
Classification(action, target, parameters, confidence, source) ==
    [action |-> action, target |-> target, parameters |-> parameters,
     confidence |-> confidence, source |-> source]

NoneRec == Classification("", "", Absent, 0, "<None>")

RENDER_MODES ==
    << [name |-> "passthrough", kws |-> <<"normal", "passthrough", "original", "clear">>],
       [name |-> "stylized",    kws |-> <<"stylize", "artistic", "style", "paint">>],
       [name |-> "segmented",   kws |-> <<"segment", "separate", "isolate", "mask">>],
       [name |-> "depth_map",   kws |-> <<"depth", "3d", "distance">>],
       [name |-> "normal_map",  kws |-> <<"normal", "surface", "bumps">>] >>

EFFECTS ==
    << [name |-> "blur",        kws |-> <<"blur", "soft", "smooth", "fuzzy">>],
       [name |-> "bloom",       kws |-> <<"bloom", "glow", "dreamy", "ethereal">>],
       [name |-> "color_grade", kws |-> <<"color", "grade", "tint", "warm", "cool">>],
       [name |-> "vignette",    kws |-> <<"vignette", "border", "frame", "dark edges">>],
       [name |-> "chromatic_aberration", kws |-> <<"chromatic", "rgb split", "glitch">>],
       [name |-> "noise",       kws |-> <<"noise", "grain", "film", "vintage">>],
       [name |-> "sharpen",     kws |-> <<"sharpen", "crisp", "detail", "enhance">>] >>

\* the last matching table entry instead of the first
FirstMatch_Last(table, text) ==
    IF \E i \in 1..Len(table) : ContainsAny(text, table[i].kws)
    THEN CHOOSE i \in 1..Len(table) :
            /\ ContainsAny(text, table[i].kws)
            /\ \A j \in (i + 1)..Len(table) : ~ContainsAny(text, table[j].kws)
    ELSE 0

\* index of the first table entry one of whose keywords occurs in the text, 0 if none
FirstMatch(table, text) ==
    IF \E i \in 1..Len(table) : ContainsAny(text, table[i].kws)
    THEN CHOOSE i \in 1..Len(table) :
            /\ ContainsAny(text, table[i].kws)
            /\ \A j \in 1..(i - 1) : ~ContainsAny(text, table[j].kws)
    ELSE 0

\* the end of the run of digits that starts at i
RECURSIVE DigitsEnd(_, _)
DigitsEnd(text, i) ==
    IF i < Len(text) /\ IsDigit(SubSeq(text, i + 1, i + 1)) THEN DigitsEnd(text, i + 1) ELSE i

\* the position after the whitespace that starts at i
RECURSIVE SkipSpaces(_, _)
SkipSpaces(text, i) ==
    IF i <= Len(text) /\ IsSpace(SubSeq(text, i, i)) THEN SkipSpaces(text, i + 1) ELSE i

\* r"(\d+)\s*%" matches with its first digit at i
PercentAt(text, i) ==
    /\ IsDigit(SubSeq(text, i, i))
    /\ LET p == SkipSpaces(text, DigitsEnd(text, i) + 1)
       IN p <= Len(text) /\ SubSeq(text, p, p) = "%"

\* re.search(r"(\d+)\s*%", text) finds a match
HasPercent(text) == \E i \in 1..Len(text) : PercentAt(text, i)

\* int(match.group(1)) of the leftmost match
PercentValue(text) ==
    LET i == CHOOSE i \in 1..Len(text) :
                 PercentAt(text, i) /\ \A j \in 1..(i - 1) : ~PercentAt(text, j)
    IN StrToInt(SubSeq(text, i, DigitsEnd(text, i)))

\* the intensity extractor with the adjectives tested before the percentage
extract_intensity_AdjectivesFirst(text) ==
    IF ContainsAny(text, <<"subtle", "light", "slight", "little">>) THEN Num(30)
    ELSE IF ContainsAny(text, <<"medium", "moderate", "normal">>) THEN Num(50)
    ELSE IF ContainsAny(text, <<"strong", "heavy", "intense", "max">>) THEN Num(80)
    ELSE IF HasPercent(text) THEN Num(PercentValue(text))
    ELSE Null

\* extract_intensity(text): Num(hundredths), or Null for None
extract_intensity(text) ==
    IF HasPercent(text) THEN Num(PercentValue(text))
    ELSE IF ContainsAny(text, <<"subtle", "light", "slight", "little">>) THEN Num(30)
    ELSE IF ContainsAny(text, <<"medium", "moderate", "normal">>) THEN Num(50)
    ELSE IF ContainsAny(text, <<"strong", "heavy", "intense", "max">>) THEN Num(80)
    ELSE Null

\* the effect branch without the test for "remove" and "off"
EffectAction_AlwaysAdd(normalized) == "add_effect"

\* lines 46-49: the action of the effect branch
EffectAction(normalized) ==
    IF Contains(normalized, "remove") \/ Contains(normalized, "off")
    THEN "remove_effect" ELSE "add_effect"

\* the control checks with the help keywords tested first
ControlChain_HelpFirst(normalized) ==
    IF ContainsAny(normalized, <<"help", "what can", "how to">>) THEN
        [action |-> "help", confidence |-> 95]
    ELSE IF ContainsAny(normalized, <<"capture", "screenshot", "photo", "snap">>) THEN
        [action |-> "capture_frame", confidence |-> 90]
    ELSE IF ContainsAny(normalized, <<"record", "start recording", "video">>) THEN
        [action |-> "start_recording", confidence |-> 85]
    ELSE IF ContainsAny(normalized, <<"stop", "end recording">>) THEN
        [action |-> "stop_recording", confidence |-> 85]
    ELSE IF ContainsAny(normalized, <<"reset", "clear", "default">>) THEN
        [action |-> "reset", confidence |-> 90]
    ELSE
        [action |-> "unknown", confidence |-> 50]

\* lines 58-72: the if/elif chain of the control keywords, and the action and
\* confidence of line 29-35 when none matches
ControlChain(normalized) ==
    IF ContainsAny(normalized, <<"capture", "screenshot", "photo", "snap">>) THEN
        [action |-> "capture_frame", confidence |-> 90]
    ELSE IF ContainsAny(normalized, <<"record", "start recording", "video">>) THEN
        [action |-> "start_recording", confidence |-> 85]
    ELSE IF ContainsAny(normalized, <<"stop", "end recording">>) THEN
        [action |-> "stop_recording", confidence |-> 85]
    ELSE IF ContainsAny(normalized, <<"reset", "clear", "default">>) THEN
        [action |-> "reset", confidence |-> 90]
    ELSE IF ContainsAny(normalized, <<"help", "what can", "how to">>) THEN
        [action |-> "help", confidence |-> 95]
    ELSE
        [action |-> "unknown", confidence |-> 50]

\* rule_based_classify(normalized)
rule_based_classify(normalized) ==
    LET m == FirstMatch(RENDER_MODES, normalized)
        e == FirstMatch(EFFECTS, normalized)
        intensity == extract_intensity(normalized)
    IN
    IF m # 0 THEN
        Classification("set_render_mode", RENDER_MODES[m].name, EmptyObj, 75, "rule")
    ELSE IF e # 0 THEN
        Classification(
            EffectAction(normalized),
            EFFECTS[e].name,
            IF intensity.k # "null" THEN Obj("intensity", intensity.n) ELSE EmptyObj,
            70, "rule")
    ELSE
        Classification(ControlChain(normalized).action, "", EmptyObj,
                       ControlChain(normalized).confidence, "rule")

\* a raw model response: kind "none" (None), "dict", or "list" (a non-mapping);
\* the four keys of a dict hold values of any type (Absent: no such key)
Raw(kind, action, target, parameters, confidence) ==
    [kind |-> kind, action |-> action, target |-> target,
     parameters |-> parameters, confidence |-> confidence]

RawNone == Raw("none", Absent, Absent, Absent, Absent)
RawList == Raw("list", Absent, Absent, Absent, Absent)

\* `not raw` for a mapping: it has no key
RawEmpty(raw) ==
    /\ raw.action.k = "absent"
    /\ raw.target.k = "absent"
    /\ raw.parameters.k = "absent"
    /\ raw.confidence.k = "absent"

\* str(raw.get(key, ""))
PyStr(v) ==
    CASE v.k = "absent" -> ""
      [] v.k = "str" -> v.s
      [] v.k = "num" -> IntToStr(v.n)
      [] v.k = "null" -> "None"
      [] OTHER -> JsonDumps(v)

\* params after lines 103-108: raw.get("parameters", {}), a string parsed
NormalizedParams(raw) ==
    LET params == IF raw.parameters.k = "absent" THEN EmptyObj ELSE raw.parameters
    IN IF params.k = "str"
       THEN (IF JsonFails(params.s) THEN EmptyObj ELSE JsonLoads(params.s))
       ELSE params

\* the normalisation without the isinstance test of line 117
normalize_llm_result_AnyParams(raw) ==
    IF raw.kind # "dict" \/ RawEmpty(raw) THEN NoneRec
    ELSE
        LET action == Strip(PyStr(raw.action))
            target == Lower(Strip(PyStr(raw.target)))
            params == NormalizedParams(raw)
            confidence ==
                clamp_confidence(IF raw.confidence.k = "absent" THEN Num(50)
                                 ELSE raw.confidence)
        IN IF action = "" THEN NoneRec
           ELSE Classification(action, target, params, confidence, "llm")

\* normalize_llm_result(raw): NoneRec for None
normalize_llm_result(raw) ==
    IF raw.kind # "dict" \/ RawEmpty(raw) THEN NoneRec
    ELSE
        LET action == Strip(PyStr(raw.action))
            target == Lower(Strip(PyStr(raw.target)))
            params == NormalizedParams(raw)
            confidence ==
                clamp_confidence(IF raw.confidence.k = "absent" THEN Num(50)
                                 ELSE raw.confidence)
        IN IF action = "" THEN NoneRec
           ELSE Classification(action, target,
                               IF IsDict(params) THEN params ELSE EmptyObj,
                               confidence, "llm")

\* the validity test without the target checks
StructurallyValid_ActionOnly(llm_result) == llm_result.action \in IntentAction

\* lines 130-140 of merge_classifications: action_valid and target_valid
StructurallyValid(llm_result) ==
    LET target_value == Lower(llm_result.target) IN
    /\ llm_result.action \in IntentAction
    /\ IF llm_result.action \in {"add_effect", "remove_effect"}
       THEN target_value \in EffectType
       ELSE IF llm_result.action = "set_render_mode"
            THEN target_value \in RenderMode
            ELSE TRUE

\* the threshold test with > for >=
ClearsThreshold_Strict(llm_conf, rule_conf) == llm_conf > Max(55, rule_conf - 5)

\* the threshold test against the floor alone
ClearsThreshold_FloorOnly(llm_conf, rule_conf) == llm_conf >= 55

\* line 145: llm_conf >= max(0.55, rule_conf - 0.05)
ClearsThreshold(llm_conf, rule_conf) == llm_conf >= Max(55, rule_conf - 5)

\* use_llm without action_valid and target_valid
UseLlm_ThresholdOnly(llm_result, rule_result) ==
    /\ llm_result # NoneRec
    /\ ClearsThreshold(llm_result.confidence, rule_result.confidence)

\* use_llm
UseLlm(llm_result, rule_result) ==
    /\ llm_result # NoneRec
    /\ StructurallyValid(llm_result)
    /\ ClearsThreshold(llm_result.confidence, rule_result.confidence)

\* The dictionaries a call of merge_classifications works on. `cells` holds the
\* dictionaries by identity: cell 1 is the caller's llm_result (None: NoneRec),
\* cell 2 the caller's rule_result, later cells are created by the call. The
\* name `classification` is bound to a cell (0: not yet bound). The values of
\* the keys are numbers, strings and parameter mappings that the function never
\* writes into, so a shallow copy shares nothing it could change.
MergeFrame(llm_result, rule_result) ==
    [cells |-> <<llm_result, rule_result>>, classification |-> 0]

\* `classification = rule_result`: the name bound to the caller's dictionary
CopyRuleResult_SameObject(frame) ==
    [frame EXCEPT !.classification = 2]

\* line 127: classification = rule_result.copy(), a new dictionary with the keys
\* and values of rule_result
CopyRuleResult(frame) ==
    [cells |-> Append(frame.cells, frame.cells[2]),
     classification |-> Len(frame.cells) + 1]

\* lines 129-154: when use_llm, classification is bound to a new dictionary built
\* from what llm_result.get returns; llm_result is only read
AdoptLlmResult(frame) ==
    LET llm_result == frame.cells[1]
        rule_result == frame.cells[2]
    IN IF UseLlm(llm_result, rule_result)
       THEN [cells |-> Append(frame.cells,
                          Classification(llm_result.action, Lower(llm_result.target),
                                         IF llm_result.parameters.k = "absent" THEN EmptyObj
                                         ELSE llm_result.parameters,
                                         clamp_confidence(Num(llm_result.confidence)), "llm")),
             classification |-> Len(frame.cells) + 1]
       ELSE frame

\* line 156: classification["confidence"] = clamp_confidence(...), an assignment
\* into the dictionary the name is bound to
ClampClassification(frame) ==
    [frame EXCEPT !.cells[frame.classification].confidence = clamp_confidence(Num(@))]

\* the body of merge_classifications, lines 127-156
MergeRun(llm_result, rule_result) ==
    ClampClassification(AdoptLlmResult(CopyRuleResult(MergeFrame(llm_result, rule_result))))

\* merge_classifications(llm_result, rule_result): line 157 returns the
\* dictionary `classification` is bound to
merge_classifications(llm_result, rule_result) ==
    LET frame == MergeRun(llm_result, rule_result)
    IN frame.cells[frame.classification]

\* the caller's two dictionaries when merge_classifications has returned
MergeArguments(llm_result, rule_result) ==
    LET frame == MergeRun(llm_result, rule_result)
    IN [llm |-> frame.cells[1], rule |-> frame.cells[2]]

\* unknown_classification(reason)
unknown_classification(reason) == Classification("unknown", reason, EmptyObj, 20, "guardrail")

-----------------------------------------------------------------------------
(* The pipeline context: a mapping; Absent, NoneRec, NoIntent, FALSE or {} *)
(* stand for a key that is not set                                          *)

NoIntent == AIIntent(Absent, Absent, "<None>", Absent, -1)

Context(user_input, timestamp) ==
    [input |-> user_input, timestamp |-> timestamp,
     normalized_input |-> Absent, original_input |-> Absent, truncated |-> FALSE,
     classification |-> NoneRec, rule_result |-> NoneRec, llm_result |-> NoneRec,
     llm_raw |-> Raw("none", Absent, Absent, Absent, Absent), rule_based |-> FALSE,
     action |-> Absent, target |-> Absent, parameters |-> Absent,
     confidence |-> Absent, classification_source |-> Absent,
     validated |-> FALSE, intent |-> NoIntent, telemetry |-> {}, error |-> Absent]

\* no context: the attribute was never assigned
NoContext == Context("<None>", -1)

\* the outcome of one model query: a raw response, or an exception
RawRaise == Raw("raise", Absent, Absent, Absent, Absent)

-----------------------------------------------------------------------------
(* config.py *)

DefaultSkipLlm == 90
DefaultMaxNormalizedLength == 512

OrchestratorConfig(skip, maxlen) ==
    [rule_confidence_skip_llm |-> skip, max_normalized_length |-> maxlen]

-----------------------------------------------------------------------------
(* pipeline.py *)

FILLERS == <<"please", "can you", "could you", "i want to", "i'd like to">>

\* lines 17-20: lower, strip, then each filler removed in turn
RECURSIVE StripFillers(_, _)
StripFillers(normalized, i) ==
    IF i > Len(FILLERS) THEN normalized
    ELSE StripFillers(Strip(Remove(normalized, FILLERS[i])), i + 1)

Normalize(user_input) == StripFillers(Strip(Lower(user_input)), 1)

\* preprocess_input(orch, user_input, context)
preprocess_input(config, user_input, context) ==
    LET normalized == Normalize(user_input)
        max_len == config.max_normalized_length
    IN IF Len(normalized) > max_len
       THEN [context EXCEPT !.normalized_input = Str(SubSeq(normalized, 1, max_len)),
                            !.truncated = TRUE,
                            !.original_input = Str(user_input)]
       ELSE [context EXCEPT !.normalized_input = Str(normalized),
                            !.original_input = Str(user_input)]

\* line 34: context.get("normalized_input", user_input.lower().strip())
ClassifyText(user_input, context) ==
    IF context.normalized_input.k = "absent" THEN Strip(Lower(user_input))
    ELSE context.normalized_input.s

\* lines 36 and 48: classify_intent calls orch.query_llm
QueriesModel(config, has_model, user_input, context) ==
    LET normalized == ClassifyText(user_input, context) IN
    /\ normalized # ""
    /\ rule_based_classify(normalized).confidence < config.rule_confidence_skip_llm
    /\ has_model

\* classify_intent without the try/except around the query: when the query raises
\* the stage stores nothing
classify_intent_NoCatch(config, has_model, user_input, context, response) ==
    LET normalized == ClassifyText(user_input, context) IN
    IF normalized = "" THEN
        LET classification == unknown_classification("empty_input") IN
        [context EXCEPT !.classification = classification,
                        !.confidence = Num(classification.confidence)]
    ELSE IF QueriesModel(config, has_model, user_input, context) /\ response.kind = "raise"
    THEN context
    ELSE
        LET rule_result == rule_based_classify(normalized)
            llm_result ==
                IF QueriesModel(config, has_model, user_input, context)
                THEN normalize_llm_result(response) ELSE NoneRec
            classification == merge_classifications(llm_result, rule_result)
        IN [context EXCEPT !.llm_result = llm_result,
                           !.classification = classification,
                           !.rule_result = rule_result,
                           !.confidence = Num(classification.confidence)]

\* classify_intent(orch, user_input, context); response is what orch.query_llm
\* does if it is called
classify_intent(config, has_model, user_input, context, response) ==
    LET normalized == ClassifyText(user_input, context) IN
    IF normalized = "" THEN
        LET classification == unknown_classification("empty_input") IN
        [context EXCEPT !.classification = classification,
                        !.confidence = Num(classification.confidence)]
    ELSE
        LET rule_result == rule_based_classify(normalized)
            llm_result ==
                IF QueriesModel(config, has_model, user_input, context)
                     /\ response.kind # "raise"
                THEN normalize_llm_result(response) ELSE NoneRec
            classification == merge_classifications(llm_result, rule_result)
            \* lines 53 and 60 store the two dictionaries themselves, which
            \* the context then shows as the call of line 57 left them
            merged == MergeArguments(llm_result, rule_result)
        IN [context EXCEPT !.llm_result = merged.llm,
                           !.classification = classification,
                           !.rule_result = merged.rule,
                           !.confidence = Num(classification.confidence)]

\* the extraction without the isinstance test of line 73
extract_parameters_KeepsParsed(context) ==
    LET classification == context.classification IN
    IF classification = NoneRec THEN context
    ELSE
        LET given == classification.parameters
            params ==
                IF IsDict(given) THEN given
                ELSE IF given.k = "str" /\ ~JsonFails(given.s)
                     THEN JsonLoads(given.s)
                     ELSE EmptyObj
        IN [context EXCEPT !.action = Str(classification.action),
                           !.target = Str(classification.target),
                           !.parameters = params,
                           !.confidence = Num(classification.confidence),
                           !.classification_source = Str(classification.source)]

\* extract_parameters(_orch, _user_input, context)
extract_parameters(context) ==
    LET classification == context.classification IN
    IF classification = NoneRec THEN context
    ELSE
        LET given == classification.parameters
            params ==
                IF IsDict(given) THEN given
                ELSE IF given.k = "str" /\ ~JsonFails(given.s) /\ IsDict(JsonLoads(given.s))
                     THEN JsonLoads(given.s)
                     ELSE EmptyObj
        IN [context EXCEPT !.action = Str(classification.action),
                           !.target = Str(classification.target),
                           !.parameters = params,
                           !.confidence = Num(classification.confidence),
                           !.classification_source = Str(classification.source)]

\* context.get(key, default)
Get(v, default) == IF v.k = "absent" THEN default ELSE v

\* `action not in valid_actions`
ActionInvalid(action) == ~(action.k = "str" /\ action.s \in IntentAction)

\* lines 97-105: a target check applies and fails
TargetInvalid(action, target) ==
    \/ action = Str("set_render_mode") /\ Lower(target.s) \notin RenderMode
    \/ action \in {Str("add_effect"), Str("remove_effect")} /\ Lower(target.s) \notin EffectType

\* the validation raises: target.lower() on a non-string, or min() on a non-number
ValidateRaises(context) ==
    LET action == Get(context.action, Str("unknown"))
        target == Get(context.target, Str(""))
        confidence == Get(context.confidence, Num(50))
    IN \/ ActionInvalid(action) /\ confidence.k # "num"
       \/ /\ action \in {Str("set_render_mode"), Str("add_effect"), Str("remove_effect")}
          /\ \/ target.k # "str"
             \/ TargetInvalid(action, target) /\ confidence.k # "num"

\* lines 89-105, shared by validate_intent and LuminaOrchestrator._validate_intent:
\* the action and the confidence after the three checks
CheckedAction(context) ==
    IF ActionInvalid(Get(context.action, Str("unknown"))) THEN Str("unknown")
    ELSE context.action

CheckedConfidence(context) ==
    LET action == Get(context.action, Str("unknown"))
        target == Get(context.target, Str(""))
        c0 == context.confidence
        c1 == IF ActionInvalid(action) THEN Num(Min(Get(c0, Num(50)).n, 30)) ELSE c0
    IN IF TargetInvalid(action, target) THEN Num(Min(Get(c1, Num(50)).n, 40)) ELSE c1

\* validate_intent(_orch, _user_input, context), where it does not raise
validate_intent(context) ==
    [context EXCEPT !.action = CheckedAction(context),
                    !.confidence = Num(clamp_confidence(Get(CheckedConfidence(context), Num(0)))),
                    !.validated = TRUE]

\* finalize_intent(_orch, _user_input, context); now is time.time() * 1000
finalize_intent(context, now) ==
    LET params == Get(context.parameters, EmptyObj)
        params_json == IF Truthy(params) THEN JsonDumps(params) ELSE "{}"
    IN [context EXCEPT !.intent =
            AIIntent(Get(context.action, Str("unknown")),
                     Get(context.target, Str("")),
                     params_json,
                     Get(context.confidence, Num(0)),
                     IF context.timestamp < 0 THEN now ELSE context.timestamp)]

-----------------------------------------------------------------------------
(* orchestrator.py : the stage methods of LuminaOrchestrator *)

Stages == <<"preprocess", "classify", "extract", "validate", "finalize">>

\* _build_dag: the five nodes in insertion order, each with its dependencies
Orch_build_dag ==
    [stage \in {"preprocess", "classify", "extract", "validate", "finalize"} |->
        CASE stage = "preprocess" -> <<>>
          [] stage = "classify" -> <<"preprocess">>
          [] stage = "extract" -> <<"classify">>
          [] stage = "validate" -> <<"extract">>
          [] OTHER -> <<"validate">>]

\* the loop over an order that leaves the validate stage out
NextStage_SkipsValidate(stage) ==
    CASE stage = "preprocess" -> "classify"
      [] stage = "classify" -> "extract"
      [] stage = "extract" -> "finalize"
      [] OTHER -> "idle"

\* parse_intent line 226: execution_order, and the stage after each one
NextStage(stage) ==
    CASE stage = "preprocess" -> "classify"
      [] stage = "classify" -> "extract"
      [] stage = "extract" -> "validate"
      [] stage = "validate" -> "finalize"
      [] OTHER -> "idle"

\* _preprocess_input that strips the text and the fillers without lowering it
Orch_preprocess_input_NoLower(user_input, context) ==
    [context EXCEPT !.normalized_input = Str(StripFillers(Strip(user_input), 1)),
                    !.original_input = Str(user_input)]

\* _preprocess_input(user_input, context)
Orch_preprocess_input(user_input, context) ==
    [context EXCEPT !.normalized_input = Str(Normalize(user_input)),
                    !.original_input = Str(user_input)]

Orch_render_modes ==
    << [name |-> "passthrough", kws |-> <<"normal", "passthrough", "original", "clear">>],
       [name |-> "stylized",    kws |-> <<"stylize", "artistic", "style", "paint">>],
       [name |-> "segmented",   kws |-> <<"segment", "separate", "isolate", "mask">>],
       [name |-> "depth_map",   kws |-> <<"depth", "3d", "distance">>],
       [name |-> "normal_map",  kws |-> <<"normal", "surface", "bumps">>] >>

\* the effect table of the method with bloom listed before blur
Orch_effects_BloomFirst ==
    << [name |-> "bloom",       kws |-> <<"bloom", "glow", "dreamy", "ethereal">>],
       [name |-> "blur",        kws |-> <<"blur", "soft", "smooth", "fuzzy">>],
       [name |-> "color_grade", kws |-> <<"color", "grade", "tint", "warm", "cool">>],
       [name |-> "vignette",    kws |-> <<"vignette", "border", "frame", "dark edges">>],
       [name |-> "chromatic_aberration", kws |-> <<"chromatic", "rgb split", "glitch">>],
       [name |-> "noise",       kws |-> <<"noise", "grain", "film", "vintage">>],
       [name |-> "sharpen",     kws |-> <<"sharpen", "crisp", "detail", "enhance">>] >>

\* lines 330-338: the effect table of _rule_based_classify, in insertion order
Orch_effects ==
    << [name |-> "blur",        kws |-> <<"blur", "soft", "smooth", "fuzzy">>],
       [name |-> "bloom",       kws |-> <<"bloom", "glow", "dreamy", "ethereal">>],
       [name |-> "color_grade", kws |-> <<"color", "grade", "tint", "warm", "cool">>],
       [name |-> "vignette",    kws |-> <<"vignette", "border", "frame", "dark edges">>],
       [name |-> "chromatic_aberration", kws |-> <<"chromatic", "rgb split", "glitch">>],
       [name |-> "noise",       kws |-> <<"noise", "grain", "film", "vintage">>],
       [name |-> "sharpen",     kws |-> <<"sharpen", "crisp", "detail", "enhance">>] >>

\* _extract_intensity(text)
Orch_extract_intensity(text) ==
    IF HasPercent(text) THEN Num(PercentValue(text))
    ELSE IF ContainsAny(text, <<"subtle", "light", "slight", "little">>) THEN Num(30)
    ELSE IF ContainsAny(text, <<"medium", "moderate", "normal">>) THEN Num(50)
    ELSE IF ContainsAny(text, <<"strong", "heavy", "intense", "max">>) THEN Num(80)
    ELSE Null

\* _rule_based_classify(normalized): the record has no "source" key
Orch_rule_based_classify(normalized) ==
    LET m == FirstMatch(Orch_render_modes, normalized)
        e == FirstMatch(Orch_effects, normalized)
        intensity == Orch_extract_intensity(normalized)
    IN
    IF m # 0 THEN
        Classification("set_render_mode", Orch_render_modes[m].name, EmptyObj, 75, "<absent>")
    ELSE IF e # 0 THEN
        Classification(
            IF Contains(normalized, "remove") \/ Contains(normalized, "off")
                THEN "remove_effect" ELSE "add_effect",
            Orch_effects[e].name,
            IF intensity.k # "null" THEN Obj("intensity", intensity.n) ELSE EmptyObj,
            70, "<absent>")
    ELSE IF ContainsAny(normalized, <<"capture", "screenshot", "photo", "snap">>) THEN
        Classification("capture_frame", "", EmptyObj, 90, "<absent>")
    ELSE IF ContainsAny(normalized, <<"record", "start recording", "video">>) THEN
        Classification("start_recording", "", EmptyObj, 85, "<absent>")
    ELSE IF ContainsAny(normalized, <<"stop", "end recording">>) THEN
        Classification("stop_recording", "", EmptyObj, 85, "<absent>")
    ELSE IF ContainsAny(normalized, <<"reset", "clear", "default">>) THEN
        Classification("reset", "", EmptyObj, 90, "<absent>")
    ELSE IF ContainsAny(normalized, <<"help", "what can", "how to">>) THEN
        Classification("help", "", EmptyObj, 95, "<absent>")
    ELSE
        Classification("unknown", "", EmptyObj, 50, "<absent>")

\* line 260: context.get("normalized_input", user_input.lower())
Orch_ClassifyText(user_input, context) ==
    IF context.normalized_input.k = "absent" THEN Lower(user_input)
    ELSE context.normalized_input.s

\* line 263: _classify_intent calls self._query_llm
Orch_QueriesModel(has_model) == has_model

\* lines 266-268: the model's answer is kept and the rule path is not taken
Orch_KeepsModelAnswer(has_model, response) ==
    /\ Orch_QueriesModel(has_model)
    /\ response.kind = "dict"
    /\ ~RawEmpty(response)

\* _classify_intent(user_input, context); response is what self._query_llm does
\* if it is called
Orch_classify_intent(has_model, user_input, context, response) ==
    IF Orch_KeepsModelAnswer(has_model, response)
    THEN [context EXCEPT !.llm_raw = response]
    ELSE [context EXCEPT !.rule_based = TRUE,
                         !.classification =
                             Orch_rule_based_classify(Orch_ClassifyText(user_input, context))]

\* line 410: cls["parameters"] on a classification without that key raises
\* KeyError; the record _rule_based_classify builds always has the key
Orch_ExtractRaises(context) ==
    /\ context.llm_raw.kind # "dict"
    /\ context.classification # NoneRec
    /\ context.classification.parameters.k = "absent"

\* _extract_parameters(user_input, context): the context it returns, or, where
\* Orch_ExtractRaises, the context as line 410 leaves it (action and target
\* written, parameters and confidence not)
Orch_extract_parameters(context) ==
    IF context.llm_raw.kind = "dict" THEN
        LET llm == context.llm_raw
            params_str == Get(llm.parameters, Str("{}"))
        IN [context EXCEPT
               !.parameters =
                   IF params_str.k = "str"
                   THEN (IF JsonFails(params_str.s) THEN EmptyObj ELSE JsonLoads(params_str.s))
                   ELSE params_str,
               !.action = Get(llm.action, Str("unknown")),
               !.target = Get(llm.target, Str("")),
               !.confidence = Get(llm.confidence, Num(50))]
    ELSE IF context.classification # NoneRec THEN
        LET cls == context.classification IN
        IF cls.parameters.k = "absent"
        THEN [context EXCEPT !.action = Str(cls.action),
                             !.target = Str(cls.target)]
        ELSE [context EXCEPT !.action = Str(cls.action),
                             !.target = Str(cls.target),
                             !.parameters = cls.parameters,
                             !.confidence = Num(cls.confidence)]
    ELSE context

\* _validate_intent that leaves an action outside the vocabulary in place
Orch_validate_intent_KeepsAction(context) ==
    [context EXCEPT !.confidence = CheckedConfidence(context),
                    !.validated = TRUE]

\* lines 422-424 (pipeline.py 93-95): the context a raising validation leaves
\* behind; the action is replaced before min() is applied to the confidence,
\* and nothing is written before target.lower()
ValidatePartial(context) ==
    [context EXCEPT !.action = CheckedAction(context)]

\* _validate_intent(user_input, context), where it does not raise
Orch_validate_intent(context) ==
    [context EXCEPT !.action = CheckedAction(context),
                    !.confidence = CheckedConfidence(context),
                    !.validated = TRUE]

\* _finalize_intent(user_input, context)
Orch_finalize_intent(context, now) ==
    LET params == Get(context.parameters, EmptyObj)
        params_json == IF Truthy(params) THEN JsonDumps(params) ELSE "{}"
    IN [context EXCEPT !.intent =
            AIIntent(Get(context.action, Str("unknown")),
                     Get(context.target, Str("")),
                     params_json,
                     Get(context.confidence, Num(0)),
                     IF context.timestamp < 0 THEN now ELSE context.timestamp)]

\* _add_to_history that never removes a record
add_to_history_NoEvict(history, limit, intent) ==
    Append(history, intent)

\* _add_to_history(intent)
add_to_history(history, limit, intent) ==
    LET appended == Append(history, intent) IN
    IF Len(appended) > limit THEN Tail(appended) ELSE appended

-----------------------------------------------------------------------------
(* Inputs *)

\* config.max_normalized_length as a test sets it, to make truncation happen
ShortMaxLen == 8

\* texts given to LuminaOrchestrator.parse_intent
OrchTexts == {"", " Please ", "help", "ADD BLUR 50%", "add blur 50%", "show depth", "hello"}

\* texts given to the pipeline
PipeTexts == {"", "   ", "can you please", "help", "capture", "reset it", "add blur",
              "ADD SUBTLE BLUR", "show me the depth map", "Make it look dreamy",
              "stop recording", "hello there"}

\* texts given to the module-level parse_intent
ModuleTexts == {"", "add blur"}

\* what LuminaOrchestrator._query_llm can do: raise, return None, return a mapping
OrchResponses ==
    { RawRaise, RawNone,
      Raw("dict", Absent, Absent, Absent, Absent),
      Raw("dict", Str("add_effect"), Str("blur"), Absent, Num(90)),
      Raw("dict", Str("add_effect"), Str("noise"), Str("{\"intensity\": 0.7}"), Num(150)),
      Raw("dict", Str("help"), Null, EmptyObj, Num(-20)),
      Raw("dict", Str("bad"), Str("n/a"), Absent, Num(99)),
      Raw("dict", Str("bad"), Str("n/a"), Absent, Str("high")),
      Raw("dict", Str("set_render_mode"), Num(5), Absent, Num(90)),
      Raw("dict", Str("add_effect"), Str("blur"), Str("not-json"), Num(90)),
      Raw("dict", Str("add_effect"), Str("blur"), Str("[1, 2, 3]"), Absent),
      Raw("dict", Absent, Str("blur"), Absent, Str("high")) }

\* what orch.query_llm can do for the pipeline: also a value that is no mapping
PipeResponses ==
    { RawRaise, RawNone, RawList,
      Raw("dict", Absent, Absent, Absent, Absent),
      Raw("dict", Str("add_effect"), Str("blur"), Absent, Num(90)),
      Raw("dict", Str("add_effect"), Str("notreal"), Absent, Num(90)),
      Raw("dict", Str("add_effect"), Str("noise"), Absent, Num(20)),
      Raw("dict", Str("add_effect"), Str("noise"), Absent, Num(64)),
      Raw("dict", Str("add_effect"), Str("noise"), Absent, Num(65)),
      Raw("dict", Str(" set_render_mode "), Str(" Stylized"), Str("{\"intensity\": 0.7}"), Num(150)),
      Raw("dict", Str("set_render_mode"), Str("blur"), Absent, Num(96)),
      Raw("dict", Str("help"), Null, EmptyObj, Num(-20)),
      Raw("dict", Str("help"), Absent, Absent, Absent),
      Raw("dict", Str("bad"), Str("n/a"), Absent, Num(99)),
      Raw("dict", Str("remove_effect"), Num(5), Absent, Str("high")),
      Raw("dict", Str("add_effect"), Str("noise"), Absent, Str(" 0.9 ")),
      Raw("dict", Str("add_effect"), Str("blur"), Str("not-json"), Num(90)),
      Raw("dict", Str("add_effect"), Str("blur"), Str("[1, 2, 3]"), Num(96)),
      Raw("dict", Str(" "), Str("blur"), Absent, Num(90)),
      Raw("dict", Absent, Str("blur"), Absent, Num(90)) }

PipeConfigs ==
    { OrchestratorConfig(skip, maxlen) :
        skip \in {DefaultSkipLlm, 95, 80},
        maxlen \in {DefaultMaxNormalizedLength, ShortMaxLen} }

\* model records given to merge_classifications directly (NoneRec: no record)
MergeConfidences == {-20, 20, 54, 55, 64, 65, 69, 70, 79, 80, 84, 85, 89, 90, 100, 150}

MergeLlmRecords ==
    { NoneRec } \cup
    { Classification(a, t, ps, c, "llm") :
        a \in {"add_effect", "remove_effect", "set_render_mode", "help", "bad"},
        t \in {"blur", "Noise", "notreal", "stylized", ""},
        ps \in {Absent, Obj("intensity", 70)},
        c \in MergeConfidences }

\* rule records given to merge_classifications directly: what the rule classifier
\* returns, the guardrail record, and records whose confidence was never clamped
MergeRuleRecords ==
    { rule_based_classify(Normalize(t)) : t \in PipeTexts } \cup
    { unknown_classification("empty_input"),
      Classification("add_effect", "blur", EmptyObj, 150, "rule"),
      Classification("unknown", "", EmptyObj, -10, "rule") }

\* normalized texts given to the rule classifier and the intensity extractor
RuleTexts ==
    { "", "hello", "normal", "paint the depth", "depth blur", "mask help",
      "capture the surface", "add subtle blur", "remove blur", "blur off",
      "coffee glow", "blur 50%", "remove noise 5 %", "strong bloom and blur",
      "glow then soft", "warm color", "capture", "capture blur", "record video",
      "stop", "reset", "help", "screenshot help", "blur 0%", "medium grain",
      "photo video", "stop the video", "end recording", "stop and reset",
      "default help", "how to stop", "what can i do", "snap 50%",
      "subtle blur 50%", "light strong", "medium max", "10% 20%", "50 60%",
      "heavy 7", "%" }

NoClassifyCall ==
    [step |-> 0, text |-> "", out |-> NoneRec, intensity |-> Null,
     orch_out |-> NoneRec, orch_intensity |-> Null]

\* _add_to_history called directly: the bound a caller assigns to max_history,
\* the number of appends, the intents appended
MaxHistoryM == 3
MaxAppends == 5
HistoryActions == {"help", "reset"}

\* the functions of the pipeline called directly on arguments of a caller

\* t repeated n times: t * n
RECURSIVE Repeat(_, _)
Repeat(t, n) == IF n = 0 THEN "" ELSE t \o Repeat(t, n - 1)

\* a text longer than the default maximum, as test_preprocess_truncation_flag
\* builds it
LongTextRepeats == 103
LongText == Repeat("blur ", LongTextRepeats)

\* texts given to preprocess_input and _preprocess_input
StageTexts ==
    { "", "  Please add BLUR  ", "can you make it dreamy", "i'd like to capture",
      "Could you PLEASE show depth", "ppleaselease blur", "pcan youlease",
      "i want could youto reset", "add blur now", "add blur", "blur 123",
      "please add b lur", LongText }

StageConfigs ==
    { OrchestratorConfig(DefaultSkipLlm, maxlen) :
        maxlen \in {DefaultMaxNormalizedLength, ShortMaxLen} }

\* raw model output given to normalize_llm_result
StageRaws ==
    (PipeResponses \ {RawRaise}) \cup
    { Raw("dict", Null, Str("blur"), Absent, Num(90)),
      Raw("dict", Num(5), Str(" BLUR "), Null, Null),
      Raw("dict", Str("help"), Absent, List("[1, 2, 3]"), Str("high")),
      Raw("dict", Str("help"), Absent, Str("\"s\""), Num(0)),
      Raw("dict", Str("help"), Absent, Str("5"), Str("2")),
      Raw("dict", Str(""), Str("blur"), Absent, Num(90)),
      Raw("dict", Absent, Absent, Absent, Num(90)) }

\* contexts given to validate_intent and _validate_intent: the keys action,
\* target and confidence hold values of any type, or are not set
StageContexts ==
    { [Context("", 0) EXCEPT !.action = a, !.target = t, !.confidence = c] :
        a \in {Absent, Str("add_effect"), Str("remove_effect"), Str("set_render_mode"),
               Str("help"), Str("bad"), Num(5)},
        t \in {Absent, Str("blur"), Str("Stylized"), Str("depth_map"), Str("notreal"),
               Num(5)},
        c \in {Absent, Num(-20), Num(20), Num(35), Num(90), Num(150), Str("high")} }

\* contexts given to extract_parameters: no classification, or one whose
\* parameters hold a value of any type
ExtractParameterValues ==
    { Absent, EmptyObj, Obj("intensity", 40), Str("{\"intensity\": 0.4}"), Str("{}"),
      Str("not-json"), Str("[1,2,3]"), Str("5"), Str("\"s\""), Str("null"), Str(""),
      List("[1, 2, 3]"), Null, Num(5) }

ExtractContexts ==
    { Context("", 0) } \cup
    { [Context("", 0) EXCEPT !.classification = Classification(a[1], a[2], params, c, src)] :
        a \in { <<"add_effect", "blur">>, <<"unknown", "">> },
        params \in ExtractParameterValues,
        c \in {0, 80},
        src \in {"llm", "rule"} }

\* a call: the function, its arguments, and what the function of pipeline.py /
\* classifiers.py (out) and the method of LuminaOrchestrator (orch_out) did
StageCall(fn, text, cfg, raw, ctx, out, orch_out, normalized, raised) ==
    [fn |-> fn, text |-> text, config |-> cfg, raw |-> raw, context |-> ctx,
     out |-> out, orch_out |-> orch_out, normalized |-> normalized, raised |-> raised]

NoStageCall ==
    StageCall("none", "", OrchestratorConfig(DefaultSkipLlm, DefaultMaxNormalizedLength),
              RawNone, NoContext, NoContext, NoContext, NoneRec, FALSE)

-----------------------------------------------------------------------------
(* graph/dag.py *)

MaxOrderLen == 3
MaxDeps == 2

\* the names a caller uses: "a" and "b" can be declared as nodes, in this
\* insertion order; "c" is never declared
DagNames == {"a", "b", "c"}
DeclOrder == <<"a", "b">>

\* DAGNode.dependencies: lists of names without repetition
DependencyLists ==
    {d \in UNION {[1..n -> DagNames] : n \in 0..MaxDeps} :
        \A i, j \in 1..Len(d) : i # j => d[i] # d[j]}

\* nodes: Dict[str, DAGNode], as name -> dependencies
DagNodeMaps == UNION {[D -> DependencyLists] : D \in SUBSET Range(DeclOrder)}

\* order: List[str]
DagOrders == UNION {[1..n -> DagNames] : n \in 0..MaxOrderLen}

\* nodes.keys() / nodes.items(), in insertion order: the caller's nodes, or the
\* five nodes of _build_dag
NodeNames(nodes) == SelectSeq(DeclOrder \o Stages, LAMBDA name : name \in DOMAIN nodes)

\* position = {name: idx for idx, name in enumerate(order)}: a later occurrence
\* of a name replaces the earlier one
Position(order, name) ==
    CHOOSE i \in 1..Len(order) :
        /\ order[i] = name
        /\ \A j \in (i + 1)..Len(order) : order[j] # name

\* the (name, dep) pairs in the order the two loops of lines 48-49 visit them
RECURSIVE DependencyPairs(_, _)
DependencyPairs(nodes, names) ==
    IF names = <<>> THEN <<>>
    ELSE [i \in 1..Len(nodes[Head(names)]) |-> <<Head(names), nodes[Head(names)][i]>>]
            \o DependencyPairs(nodes, Tail(names))

\* the test of lines 50-53 on one pair
DependencyViolation(order, pair) ==
    IF pair[2] \notin Range(order) THEN "dependency_missing"
    ELSE IF Position(order, pair[2]) > Position(order, pair[1]) THEN "dependency_order"
    ELSE "ok"

DagOk == [raises |-> FALSE, error |-> "none", names |-> <<>>]
DagError(error, names) == [raises |-> TRUE, error |-> error, names |-> names]

\* validate_dag(nodes, order): the ValueError it raises, with the names its
\* message lists, or no error
validate_dag(nodes, order) ==
    LET missing == SelectSeq(order, LAMBDA name : name \notin DOMAIN nodes)
        unknown == SelectSeq(NodeNames(nodes), LAMBDA name : name \notin Range(order))
        bad == SelectSeq(DependencyPairs(nodes, NodeNames(nodes)),
                         LAMBDA pair : DependencyViolation(order, pair) # "ok")
    IN IF missing # <<>> THEN DagError("missing", missing)
       ELSE IF unknown # <<>> THEN DagError("unknown", unknown)
       ELSE IF bad # <<>> THEN DagError(DependencyViolation(order, Head(bad)), Head(bad))
       ELSE DagOk

\* the context of a run: what the processors wrote, and the telemetry mapping
DagContext(trace, has_telemetry, timed) ==
    [trace |-> trace, telemetry |-> [present |-> has_telemetry, nodes |-> timed]]

\* contexts a caller passes: an empty one, and one that has a telemetry mapping
DagContexts == {DagContext(<<>>, FALSE, {}), DagContext(<<>>, TRUE, {"z"})}

\* the processor of node `name`: records its call in the context and returns it
Processor(name, ctx) == [ctx EXCEPT !.trace = Append(@, name)]

\* a processor that returns a new mapping: it holds what the processors wrote
\* and no "telemetry" key
FreshProcessor(name, ctx) == DagContext(Append(ctx.trace, name), FALSE, {})

\* what the processor of a node does with the context: "same" returns the
\* mapping it was given, "new" returns a new one
ProcessorKinds == {"same", "new"}

\* execute_dag with the telemetry mapping set up before validate_dag is called
execute_dag_TelemetryFirst(nodes, order, passed) ==
    [raises |-> validate_dag(nodes, order).raises,
     error |-> validate_dag(nodes, order),
     context |-> [passed EXCEPT !.telemetry.present = TRUE]]

\* execute_dag, lines 24-26: validate_dag, then context.setdefault("telemetry", ...)
execute_dag(nodes, order, passed) ==
    LET v == validate_dag(nodes, order)
    IN [raises |-> v.raises,
        error |-> v,
        context |-> IF v.raises THEN passed
                    ELSE [passed EXCEPT !.telemetry.present = TRUE]]

\* one iteration of the loop of lines 28-33 on node `name`: the timing is written
\* into the mapping bound at line 26, which the returned context holds only if it
\* is, or was copied from, the context passed to execute_dag
execute_node(kind, name, ctx) ==
    LET out == IF kind = "new" THEN FreshProcessor(name, ctx) ELSE Processor(name, ctx)
    IN IF out.telemetry.present
       THEN [out EXCEPT !.telemetry.nodes = @ \cup {name}]
       ELSE out

\* the processors a caller gives the nodes; what they do matters only when
\* validate_dag lets them run
ProcessorChoices(nodes, order) ==
    IF validate_dag(nodes, order).raises
    THEN {[name \in DOMAIN nodes |-> "same"]}
    ELSE [DOMAIN nodes -> ProcessorKinds]

NoDagCall ==
    [step |-> "none", nodes |-> <<>>, order |-> <<>>, passed |-> DagContext(<<>>, FALSE, {}),
     context |-> DagContext(<<>>, FALSE, {}), i |-> 0, invoked |-> <<>>,
     received |-> <<>>, returned |-> <<>>, error |-> DagOk, kinds |-> <<>>]

-----------------------------------------------------------------------------
(* LuminaOrchestrator: initialize, shutdown, to_json (orchestrator.py) *)

DefaultMaxHistory == 10

\* what initialize finds: LLAMA_AVAILABLE, the model file, the grammar file,
\* and whether Llama(...) raises
InitEnv(llama_available, model_exists, grammar_exists, load_raises) ==
    [llama_available |-> llama_available, model_exists |-> model_exists,
     grammar_exists |-> grammar_exists, load_raises |-> load_raises]

InitEnvs == {InitEnv(l, m, g, r) : l \in BOOLEAN, m \in BOOLEAN, g \in BOOLEAN, r \in BOOLEAN}

NoEnv == InitEnv(FALSE, FALSE, FALSE, FALSE)

\* the two cases a used orchestrator is initialized in: everything is there and
\* the model loads, nothing is there
OrchEnvs == {InitEnv(TRUE, TRUE, TRUE, FALSE), NoEnv}

\* the try block of initialize is reached and Llama(...) returns a model
Loads(env) == env.llama_available /\ env.model_exists /\ ~env.load_raises

\* initialize that reports a failure when no model could be loaded
initialize_FailsWithoutModel(has_model, has_grammar, env) ==
    [model |-> has_model \/ Loads(env),
     grammar_path |-> has_grammar \/ env.grammar_exists,
     initialized |-> Loads(env),
     returned |-> IF Loads(env) THEN "True" ELSE "False"]

\* initialize(): the fields it leaves and the value it returns; self.model is
\* assigned only by a successful load
initialize(has_model, has_grammar, env) ==
    [model |-> has_model \/ Loads(env),
     grammar_path |-> has_grammar \/ env.grammar_exists,
     initialized |-> TRUE,
     returned |-> "True"]

\* shutdown that releases the model and leaves the flag
shutdown_KeepsInitialized(has_model, is_initialized) ==
    [model |-> FALSE, initialized |-> is_initialized]

\* shutdown(): the fields it leaves
shutdown(has_model, is_initialized) ==
    [model |-> FALSE, initialized |-> FALSE]

\* a string as json.dumps writes it: quotes and backslashes escaped
RECURSIVE JsonEscape(_)
JsonEscape(t) ==
    IF t = "" THEN ""
    ELSE LET c == SubSeq(t, 1, 1)
             rest == JsonEscape(SubSeq(t, 2, Len(t)))
         IN IF c = "\"" THEN "\\\"" \o rest
            ELSE IF c = "\\" THEN "\\\\" \o rest
            ELSE c \o rest

\* a field of an intent as json.dumps writes it
JsonField(v) ==
    CASE v.k = "str" -> "\"" \o JsonEscape(v.s) \o "\""
      [] v.k = "num" -> (IF v.n < 0 THEN "-" \o FloatStr(0 - v.n) ELSE FloatStr(v.n))
      [] OTHER -> JsonDumps(v)

\* AIIntent.to_json()
to_json(intent) ==
    "{\"action\": " \o JsonField(intent.action)
        \o ", \"target\": " \o JsonField(intent.target)
        \o ", \"parameters\": \"" \o JsonEscape(intent.parameters) \o "\""
        \o ", \"confidence\": " \o JsonField(intent.confidence)
        \o ", \"timestamp\": " \o IntToStr(intent.timestamp) \o "}"

\* a lifecycle call: its name and the value it returned ("" while a parse_intent
\* call is running); for initialize and shutdown also the flags the call found
\* and what initialize found
Op(op, was_initialized, had_model, had_singleton, env, returned) ==
    [op |-> op, initialized |-> was_initialized, model |-> had_model,
     singleton |-> had_singleton, env |-> env, returned |-> returned]

NoOp == Op("none", FALSE, FALSE, FALSE, NoEnv, "")

\* a parse_intent call that returned: its text, whether the orchestrator held a
\* model during it, the intent it returned; the calls made without a model are
\* kept in call_log
Call(text, has_model, intent) == [input |-> text, has_model |-> has_model, intent |-> intent]

-----------------------------------------------------------------------------
(* State *)

VARIABLES
    entry,            \* the entry point a behaviour exercises
    initialized,      \* LuminaOrchestrator.initialized
    model,            \* LuminaOrchestrator.model (orch.model) is not None
    intent_history,   \* LuminaOrchestrator.intent_history
    max_history,      \* LuminaOrchestrator.max_history
    dag_nodes,        \* LuminaOrchestrator.dag_nodes: the processor of each stage
    config,           \* orch.config of the pipeline functions
    pc,               \* the stage about to run, "idle" between calls
    user_input,       \* the text of the call
    context,          \* the context of the call
    result,           \* how the last call ended
    calls,            \* parse_intent calls so far
    clock,            \* time.time() * 1000
    llm_queries,      \* model queries in the current call
    response,         \* what the model query of the current call did
    ran,              \* the stages that have returned in the current call
    hist0,            \* intent_history when the current call began
    mergeCall,        \* arguments and results of merge_classifications
    last_context,     \* LuminaOrchestrator.last_context, as the tests read it
    dagCall,          \* a call of execute_dag on nodes and an order of the caller
    history_log,      \* every intent given to _add_to_history so far, in order
    singleton,        \* the module-level _orchestrator is not None
    grammar_path,     \* LuminaOrchestrator.grammar_path is not None
    last_op,          \* the last lifecycle call, the flags it found, what it returned
    classifyCall,     \* a call of the rule classifier and the intensity extractor
    call_log,         \* the parse_intent calls made without a model: text, intent
    stageCall,        \* a call of one pipeline function on arguments of the caller
    instances,        \* two LuminaOrchestrator objects: their attributes and lists
    inst_log          \* the calls made on the two objects, in order

vars == <<entry, initialized, model, intent_history, max_history, dag_nodes, config,
          pc, user_input, context, result, calls, clock, llm_queries, response, ran,
          hist0, mergeCall, last_context, dagCall, history_log, singleton,
                   grammar_path, last_op, classifyCall, call_log, stageCall,
          instances, inst_log>>

Result(kind, intent) == [kind |-> kind, intent |-> intent]

NoMerge ==
    [step |-> 0, llm |-> NoneRec, rule |-> NoneRec, out |-> NoneRec, again |-> NoneRec,
     after |-> [llm |-> NoneRec, rule |-> NoneRec]]

\* the calls of merge_classifications a caller makes: the arguments, before the call
MergeCalls ==
    {[NoMerge EXCEPT !.llm = llm, !.rule = rule] :
        llm \in MergeLlmRecords, rule \in MergeRuleRecords}

\* the calls of execute_dag a caller makes: the arguments, before the call
DagCalls ==
    UNION { {[NoDagCall EXCEPT !.nodes = nodes, !.order = order, !.passed = passed,
                               !.context = passed, !.kinds = kinds] :
                kinds \in ProcessorChoices(nodes, order)} :
            nodes \in DagNodeMaps, order \in DagOrders, passed \in DagContexts }

StageSet == {Stages[i] : i \in 1..Len(Stages)}

\* The objects of a program that makes LuminaOrchestrator objects. `objects`
\* holds the attribute dictionary of each object, by identity; an attribute that
\* holds a list holds the identity of the list, and `lists` holds the lists. A
\* model handle is one Llama object per successful load, shown as a flag.
EmptyStore == [objects |-> <<>>, lists |-> <<>>]

\* intent_history as an attribute of the class: one list, made when the class is
\* defined, that every object finds under the name
LuminaOrchestrator_init_ClassHistory(store) ==
    LET self == Len(store.objects) + 1 IN
    [objects |-> Append(store.objects,
                    [model |-> FALSE, grammar_path |-> FALSE, initialized |-> FALSE,
                     dag_nodes |-> [st \in StageSet |-> [processor |-> "method",
                                                         self |-> self]],
                     intent_history |-> 1,
                     max_history |-> DefaultMaxHistory]),
     lists |-> IF store.lists = <<>> THEN << <<>> >> ELSE store.lists]

\* LuminaOrchestrator(): __init__ (lines 122-132) assigns every attribute on
\* self. _build_dag (136-161) binds the five processors to methods of self, and
\* line 131 makes a new list for the history. The class itself holds only the
\* SYSTEM_PROMPT string and no last_context is assigned anywhere.
LuminaOrchestrator_init(store) ==
    LET self == Len(store.objects) + 1 IN
    [objects |-> Append(store.objects,
                    [model |-> FALSE, grammar_path |-> FALSE, initialized |-> FALSE,
                     dag_nodes |-> [st \in StageSet |-> [processor |-> "method",
                                                         self |-> self]],
                     intent_history |-> Len(store.lists) + 1,
                     max_history |-> DefaultMaxHistory]),
     lists |-> Append(store.lists, <<>>)]

\* the attributes of the object `self` as a caller reads them, the history list
\* read through the attribute
Attributes(store, self) ==
    [store.objects[self] EXCEPT !.intent_history = store.lists[@]]

\* self.initialize(): lines 163-207 assign self.model, self.grammar_path and
\* self.initialized
Self_initialize(store, self, env) ==
    LET i == initialize(store.objects[self].model, store.objects[self].grammar_path, env)
    IN [store EXCEPT !.objects[self].model = i.model,
                     !.objects[self].grammar_path = i.grammar_path,
                     !.objects[self].initialized = i.initialized]

\* self.shutdown(): lines 469-472 assign self.model and self.initialized
Self_shutdown(store, self) ==
    LET d == shutdown(store.objects[self].model, store.objects[self].initialized)
    IN [store EXCEPT !.objects[self].model = d.model,
                     !.objects[self].initialized = d.initialized]

\* self._add_to_history(intent): lines 459-461 append to the list that
\* self.intent_history holds and pop from it, in place
Self_add_to_history(store, self, intent) ==
    LET held == store.objects[self].intent_history
    IN [store EXCEPT !.lists[held] =
            add_to_history(@, store.objects[self].max_history, intent)]

InstanceIds == {1, 2}

\* what a caller reads from each of the objects
View(store) == [j \in InstanceIds |-> Attributes(store, j)]

\* calls made on the two objects
MaxInstCalls == 3

InstTexts == {"add blur 50%", "hello"}

\* what self._query_llm does when it is called
InstResponses ==
    { RawNone,
      Raw("dict", Str("add_effect"), Str("noise"), Str("{\"intensity\": 0.7}"), Num(150)),
      Raw("dict", Str("bad"), Str("n/a"), Absent, Str("high")) }

\* the returned intent taken from the object's history when there is one
ReturnedIntent_LastOfHistory(inst, text, ctx) ==
    IF inst.intent_history # <<>> THEN inst.intent_history[Len(inst.intent_history)]
    ELSE ctx.intent

\* lines 232-237: the intent parse_intent returns is the one the finalize stage
\* put in the context of this call (the default is built from the text and the
\* timestamp of the call); self.intent_history is not read
ReturnedIntent(inst, text, ctx) ==
    IF ctx.intent = NoIntent
    THEN AIIntent(Str("unknown"), Str(text), "", Num(0), ctx.timestamp)
    ELSE ctx.intent

\* self.parse_intent(user_input), lines 219-242, as one call: the objects
\* afterwards, and the intent returned unless a stage raised. The context is a
\* dictionary made by the call (line 223) that no object keeps; each processor
\* is the method of the object its DAG node is bound to, and _classify_intent
\* reads the model of that object.
ParseOutcome(store, self, text, env, r, now) ==
    LET started == IF store.objects[self].initialized THEN store
                   ELSE Self_initialize(store, self, env)
        classifier == started.objects[self].dag_nodes["classify"].self
        c1 == Orch_preprocess_input(text, Context(text, now))
        c2 == Orch_classify_intent(started.objects[classifier].model, text, c1, r)
        c3 == Orch_extract_parameters(c2)
        raised == Orch_ExtractRaises(c2) \/ ValidateRaises(c3)
        c5 == Orch_finalize_intent(Orch_validate_intent(c3), now)
        intent == ReturnedIntent(Attributes(store, self), text, c5)
    IN IF raised
       THEN [result |-> Result("raised", NoIntent), after |-> started]
       ELSE [result |-> Result("returned", intent),
             after |-> Self_add_to_history(started, self, intent)]

\* an entry of the log: the call, the objects before it and after it
InstCall(op, id, text, r, res, before, after) ==
    [op |-> op, id |-> id, text |-> text, response |-> r, result |-> res,
     before |-> before, after |-> after]

\* __init__ and _build_dag; max_history is then assigned as the tests assign it
Init ==
    /\ entry \in {"orchestrator", "module", "pipeline", "merge", "dag", "history", "rules",
                 "stages", "instances"}
    /\ initialized = FALSE
    /\ model = FALSE
    /\ intent_history = <<>>
    /\ max_history = HistCap
    /\ dag_nodes = [st \in StageSet |-> "method"]
    /\ config = OrchestratorConfig(DefaultSkipLlm, DefaultMaxNormalizedLength)
    /\ pc = "idle"
    /\ user_input = ""
    /\ context = Context("", -1)
    /\ result = Result("none", NoIntent)
    /\ calls = 0
    /\ clock = 1
    /\ llm_queries = 0
    /\ response = RawNone
    /\ ran = <<>>
    /\ hist0 = <<>>
    /\ mergeCall \in (IF entry = "merge" THEN MergeCalls ELSE {NoMerge})
    /\ last_context = NoContext
    /\ dagCall \in (IF entry = "dag" THEN DagCalls ELSE {NoDagCall})
    /\ history_log = <<>>
    /\ singleton = FALSE
    /\ grammar_path = FALSE
    /\ last_op = NoOp
    /\ classifyCall = NoClassifyCall
    /\ call_log = <<>>
    /\ stageCall = NoStageCall
    /\ instances = LuminaOrchestrator_init(LuminaOrchestrator_init(EmptyStore))
    /\ inst_log = <<>>

-----------------------------------------------------------------------------
(* LuminaOrchestrator: lifecycle and parse_intent (orchestrator.py) *)

OrchIdle == entry = "orchestrator" /\ pc = "idle"

\* lifecycle calls are made before a parse_intent call, up to the last one
MoreCalls == calls < MaxCalls

\* initialize() on the instance
Initialize(env) ==
    /\ OrchIdle
    /\ MoreCalls
    /\ LET i == initialize(model, grammar_path, env)
       IN /\ initialized' = i.initialized
          /\ model' = i.model
          /\ grammar_path' = i.grammar_path
          /\ last_op' = Op("initialize", initialized, model, singleton, env, i.returned)
    /\ UNCHANGED <<entry, intent_history, max_history, dag_nodes, config, pc, user_input,
                   context, result, calls, clock, llm_queries, response, ran, hist0,
                   mergeCall, last_context, dagCall, history_log, singleton, classifyCall,
                   call_log, stageCall,
                   instances, inst_log>>

\* shutdown() on the instance
Shutdown ==
    /\ OrchIdle
    /\ MoreCalls
    /\ LET d == shutdown(model, initialized)
       IN /\ model' = d.model
          /\ initialized' = d.initialized
    /\ last_op' = Op("shutdown", initialized, model, singleton, NoEnv, "None")
    /\ UNCHANGED <<entry, intent_history, max_history, dag_nodes, config, pc, user_input,
                   context, result, calls, clock, llm_queries, response, ran, hist0,
                   mergeCall, last_context, dagCall, history_log, singleton, grammar_path,
                   classifyCall,
                   call_log, stageCall,
                   instances, inst_log>>

\* a caller replaces the processor of one stage by one that raises, as
\* TestDAGErrorHandling does
ReplaceProcessor(stage) ==
    /\ OrchIdle
    /\ MoreCalls
    /\ \A st \in StageSet : dag_nodes[st] = "method"
    /\ dag_nodes' = [dag_nodes EXCEPT ![stage] = "boom"]
    /\ last_op' = Op("replace_processor", FALSE, FALSE, FALSE, NoEnv, "")
    /\ UNCHANGED <<entry, initialized, model, intent_history, max_history, config, pc,
                   user_input, context, result, calls, clock, llm_queries, response, ran,
                   hist0, mergeCall, last_context, dagCall, history_log, singleton,
                   grammar_path, classifyCall,
                   call_log, stageCall,
                   instances, inst_log>>

\* the call of parse_intent on an instance, lines 219-226: initialize if needed,
\* build the context
BeginParse(text, has_model, has_grammar, is_initialized, env) ==
    /\ MoreCalls
    /\ is_initialized => env = NoEnv
    /\ LET i == IF is_initialized
                THEN [model |-> has_model, grammar_path |-> has_grammar,
                      initialized |-> TRUE, returned |-> ""]
                ELSE initialize(has_model, has_grammar, env)
       IN /\ initialized' = i.initialized
          /\ model' = i.model
          /\ grammar_path' = i.grammar_path
    /\ user_input' = text
    /\ context' = Context(text, clock)
    /\ clock' = clock + 1
    /\ calls' = calls + 1
    /\ pc' = "preprocess"
    /\ result' = Result("running", NoIntent)
    /\ llm_queries' = 0
    /\ response' = RawNone
    /\ ran' = <<>>

\* parse_intent on the instance
ParseIntent(text, env) ==
    /\ OrchIdle
    /\ BeginParse(text, model, grammar_path, initialized, env)
    /\ hist0' = intent_history
    /\ last_op' = Op("parse_intent", FALSE, FALSE, FALSE, NoEnv, "")
    /\ UNCHANGED <<entry, intent_history, max_history, dag_nodes, config, mergeCall,
                   last_context, dagCall, history_log, singleton, classifyCall,
                   call_log, stageCall,
                   instances, inst_log>>

ModuleIdle == entry = "module" /\ pc = "idle"

\* the module-level initialize(assets_path): a new orchestrator replaces the
\* global one and is initialized
ModuleInitialize(env) ==
    /\ ModuleIdle
    /\ MoreCalls
    /\ singleton' = TRUE
    /\ LET i == initialize(FALSE, FALSE, env)
       IN /\ initialized' = i.initialized
          /\ model' = i.model
          /\ grammar_path' = i.grammar_path
          /\ last_op' = Op("module.initialize", initialized, model, singleton, env, i.returned)
    /\ intent_history' = <<>>
    /\ history_log' = <<>>
    /\ max_history' = DefaultMaxHistory
    /\ dag_nodes' = [st \in StageSet |-> "method"]
    /\ UNCHANGED <<entry, config, pc, user_input, context, result, calls, clock,
                   llm_queries, response, ran, hist0, mergeCall, last_context, dagCall,
                   classifyCall,
                   call_log, stageCall,
                   instances, inst_log>>

\* the module-level shutdown(): shuts the global orchestrator down and drops it;
\* nothing happens when there is none
ModuleShutdown ==
    /\ ModuleIdle
    /\ MoreCalls
    /\ IF singleton
       THEN LET d == shutdown(model, initialized)
            IN /\ model' = d.model
               /\ initialized' = d.initialized
               /\ singleton' = FALSE
       ELSE UNCHANGED <<model, initialized, singleton>>
    /\ last_op' = Op("module.shutdown", initialized, model, singleton, NoEnv, "None")
    /\ UNCHANGED <<entry, intent_history, max_history, dag_nodes, config, pc, user_input,
                   context, result, calls, clock, llm_queries, response, ran, hist0,
                   mergeCall, last_context, dagCall, history_log, grammar_path,
                   classifyCall,
                   call_log, stageCall,
                   instances, inst_log>>

\* the module-level parse_intent(user_input): creates and initializes the global
\* orchestrator when there is none, then calls its parse_intent; the JSON text
\* is returned when the call returns
ModuleParseIntent(text, env) ==
    /\ ModuleIdle
    /\ singleton' = TRUE
    /\ IF singleton
       THEN /\ BeginParse(text, model, grammar_path, initialized, env)
            /\ hist0' = intent_history
            /\ UNCHANGED <<intent_history, history_log, max_history, dag_nodes>>
       ELSE /\ BeginParse(text, FALSE, FALSE, FALSE, env)
            /\ hist0' = <<>>
            /\ intent_history' = <<>>
            /\ history_log' = <<>>
            /\ max_history' = DefaultMaxHistory
            /\ dag_nodes' = [st \in StageSet |-> "method"]
    /\ last_op' = Op("module.parse_intent", FALSE, FALSE, FALSE, NoEnv, "")
    /\ UNCHANGED <<entry, config, mergeCall, last_context, dagCall, classifyCall,
                   call_log, stageCall,
                   instances, inst_log>>

\* a processor raises, leaving the context as ctx: nothing in parse_intent
\* catches it, the call ends there
Raise(ctx) ==
    /\ result' = Result("raised", NoIntent)
    /\ pc' = "idle"
    /\ clock' = clock + 1
    /\ context' = ctx
    /\ UNCHANGED <<entry, initialized, model, intent_history, max_history, dag_nodes,
                   config, user_input, calls, llm_queries, response, ran, hist0,
                   mergeCall, last_context, dagCall, history_log, singleton,
                   grammar_path, last_op, classifyCall,
                   call_log, stageCall,
                   instances, inst_log>>

\* a processor raises before it has written to the context
Propagate == Raise(context)

\* one iteration of the loop of lines 228-230 that returns
Advance(stage, ctx) ==
    /\ context' = ctx
    /\ pc' = NextStage(stage)
    /\ ran' = Append(ran, stage)
    /\ clock' = clock + 1

OrchAt(stage) == entry \in {"orchestrator", "module"} /\ pc = stage

\* the replaced processor of the stage about to run raises
OrchBoom ==
    /\ entry \in {"orchestrator", "module"}
    /\ pc \in StageSet
    /\ dag_nodes[pc] = "boom"
    /\ Propagate

OrchPreprocess ==
    /\ OrchAt("preprocess")
    /\ dag_nodes["preprocess"] = "method"
    /\ Advance("preprocess", Orch_preprocess_input(user_input, context))
    /\ UNCHANGED <<entry, initialized, model, intent_history, max_history, dag_nodes,
                   config, user_input, result, calls, llm_queries, response, hist0,
                   mergeCall, last_context, dagCall, history_log, singleton,
                   grammar_path, last_op, classifyCall,
                   call_log, stageCall,
                   instances, inst_log>>

\* the model is queried and does `r`
OrchClassifyQuery(r) ==
    /\ OrchAt("classify")
    /\ dag_nodes["classify"] = "method"
    /\ Orch_QueriesModel(model)
    /\ llm_queries' = llm_queries + 1
    /\ response' = r
    /\ Advance("classify", Orch_classify_intent(model, user_input, context, r))
    /\ UNCHANGED <<entry, initialized, model, intent_history, max_history, dag_nodes,
                   config, user_input, result, calls, hist0, mergeCall, last_context, dagCall, history_log, singleton,
                   grammar_path, last_op, classifyCall,
                   call_log, stageCall,
                   instances, inst_log>>

\* the model is not queried
OrchClassifyRule ==
    /\ OrchAt("classify")
    /\ dag_nodes["classify"] = "method"
    /\ ~Orch_QueriesModel(model)
    /\ Advance("classify", Orch_classify_intent(model, user_input, context, RawNone))
    /\ UNCHANGED <<entry, initialized, model, intent_history, max_history, dag_nodes,
                   config, user_input, result, calls, llm_queries, response, hist0,
                   mergeCall, last_context, dagCall, history_log, singleton,
                   grammar_path, last_op, classifyCall,
                   call_log, stageCall,
                   instances, inst_log>>

\* _extract_parameters returns, or raises KeyError at line 410
OrchExtract ==
    /\ OrchAt("extract")
    /\ dag_nodes["extract"] = "method"
    /\ IF Orch_ExtractRaises(context)
       THEN Raise(Orch_extract_parameters(context))
       ELSE /\ Advance("extract", Orch_extract_parameters(context))
            /\ UNCHANGED <<entry, initialized, model, intent_history, max_history,
                           dag_nodes, config, user_input, result, calls, llm_queries,
                           response, hist0, mergeCall, last_context, dagCall,
                           history_log, singleton, grammar_path, last_op, classifyCall,
                           call_log, stageCall, instances, inst_log>>

OrchValidate ==
    /\ OrchAt("validate")
    /\ dag_nodes["validate"] = "method"
    /\ ~ValidateRaises(context)
    /\ Advance("validate", Orch_validate_intent(context))
    /\ UNCHANGED <<entry, initialized, model, intent_history, max_history, dag_nodes,
                   config, user_input, result, calls, llm_queries, response, hist0,
                   mergeCall, last_context, dagCall, history_log, singleton,
                   grammar_path, last_op, classifyCall,
                   call_log, stageCall,
                   instances, inst_log>>

\* _validate_intent raises (AttributeError at line 429 or 435, TypeError at
\* line 424, 430 or 436); an action outside the vocabulary was replaced first
OrchValidateRaises ==
    /\ OrchAt("validate")
    /\ dag_nodes["validate"] = "method"
    /\ ValidateRaises(context)
    /\ Raise(ValidatePartial(context))

\* the last iteration, then lines 232-242: the intent goes to the history and
\* is returned
OrchFinalize ==
    /\ OrchAt("finalize")
    /\ dag_nodes["finalize"] = "method"
    /\ LET ctx == Orch_finalize_intent(context, clock)
           intent == IF ctx.intent = NoIntent
                     THEN AIIntent(Str("unknown"), Str(user_input), "", Num(0), ctx.timestamp)
                     ELSE ctx.intent
       IN /\ Advance("finalize", ctx)
          /\ intent_history' = add_to_history(intent_history, max_history, intent)
          /\ history_log' = Append(history_log, intent)
          /\ result' = Result("returned", intent)
          /\ call_log' = IF model THEN call_log
                         ELSE Append(call_log, Call(user_input, model, intent))
          /\ last_op' = IF entry = "module"
                        THEN [last_op EXCEPT !.returned = to_json(intent)]
                        ELSE last_op
    /\ UNCHANGED <<entry, initialized, model, max_history, dag_nodes, config, user_input,
                   calls, llm_queries, response, hist0, mergeCall, last_context, dagCall,
                   singleton, grammar_path, classifyCall, stageCall,
                   instances, inst_log>>

-----------------------------------------------------------------------------
(* The pipeline functions run by execute_dag (graph/dag.py) over the five    *)
(* nodes in their order, for an orch that has a config, a model and query_llm *)

PipeAt(stage) == entry = "pipeline" /\ pc = stage

\* execute_dag is called on a fresh context: validate_dag passes for the five
\* nodes, the telemetry mapping is set up
PipeStart(text, cfg, has_model) ==
    /\ PipeAt("idle")
    /\ result.kind = "none"
    /\ user_input' = text
    /\ config' = cfg
    /\ model' = has_model
    /\ context' = Context(text, clock)
    /\ pc' = "preprocess"
    /\ result' = Result("running", NoIntent)
    /\ llm_queries' = 0
    /\ response' = RawNone
    /\ ran' = <<>>
    /\ UNCHANGED <<entry, initialized, intent_history, max_history, dag_nodes, calls,
                   clock, hist0, mergeCall, last_context, dagCall, history_log, singleton,
                   grammar_path, last_op, classifyCall,
                   call_log, stageCall,
                   instances, inst_log>>

\* one iteration of the loop of execute_dag, lines 28-33: the processor runs,
\* its timing is recorded under the node's name
RunNode(stage, ctx) ==
    /\ context' = [ctx EXCEPT !.telemetry = @ \cup {stage}]
    /\ pc' = NextStage(stage)
    /\ ran' = Append(ran, stage)

PipePreprocess ==
    /\ PipeAt("preprocess")
    /\ RunNode("preprocess", preprocess_input(config, user_input, context))
    /\ UNCHANGED <<entry, initialized, model, intent_history, max_history, dag_nodes,
                   config, user_input, result, calls, clock, llm_queries, response, hist0,
                   mergeCall, last_context, dagCall, history_log, singleton,
                   grammar_path, last_op, classifyCall,
                   call_log, stageCall,
                   instances, inst_log>>

\* classify_intent calls orch.query_llm, which does `r`
PipeClassifyQuery(r) ==
    /\ PipeAt("classify")
    /\ QueriesModel(config, model, user_input, context)
    /\ llm_queries' = llm_queries + 1
    /\ response' = r
    /\ RunNode("classify", classify_intent(config, model, user_input, context, r))
    /\ UNCHANGED <<entry, initialized, model, intent_history, max_history, dag_nodes,
                   config, user_input, result, calls, clock, hist0, mergeCall, last_context, dagCall, history_log, singleton,
                   grammar_path, last_op, classifyCall,
                   call_log, stageCall,
                   instances, inst_log>>

\* classify_intent does not call orch.query_llm
PipeClassifyRule ==
    /\ PipeAt("classify")
    /\ ~QueriesModel(config, model, user_input, context)
    /\ RunNode("classify", classify_intent(config, model, user_input, context, RawNone))
    /\ UNCHANGED <<entry, initialized, model, intent_history, max_history, dag_nodes,
                   config, user_input, result, calls, clock, llm_queries, response, hist0,
                   mergeCall, last_context, dagCall, history_log, singleton,
                   grammar_path, last_op, classifyCall,
                   call_log, stageCall,
                   instances, inst_log>>

PipeExtract ==
    /\ PipeAt("extract")
    /\ RunNode("extract", extract_parameters(context))
    /\ UNCHANGED <<entry, initialized, model, intent_history, max_history, dag_nodes,
                   config, user_input, result, calls, clock, llm_queries, response, hist0,
                   mergeCall, last_context, dagCall, history_log, singleton,
                   grammar_path, last_op, classifyCall,
                   call_log, stageCall,
                   instances, inst_log>>

PipeValidate ==
    /\ PipeAt("validate")
    /\ ~ValidateRaises(context)
    /\ RunNode("validate", validate_intent(context))
    /\ UNCHANGED <<entry, initialized, model, intent_history, max_history, dag_nodes,
                   config, user_input, result, calls, clock, llm_queries, response, hist0,
                   mergeCall, last_context, dagCall, history_log, singleton,
                   grammar_path, last_op, classifyCall,
                   call_log, stageCall,
                   instances, inst_log>>

\* the last node; execute_dag returns the context
PipeFinalize ==
    /\ PipeAt("finalize")
    /\ LET ctx == finalize_intent(context, clock)
       IN /\ RunNode("finalize", ctx)
          /\ result' = Result("returned", ctx.intent)
    /\ UNCHANGED <<entry, initialized, model, intent_history, max_history, dag_nodes,
                   config, user_input, calls, clock, llm_queries, response, hist0,
                   mergeCall, last_context, dagCall, history_log, singleton,
                   grammar_path, last_op, classifyCall,
                   call_log, stageCall,
                   instances, inst_log>>

-----------------------------------------------------------------------------
(* merge_classifications called directly *)

MergeApply(llm, rule) ==
    /\ entry = "merge"
    /\ mergeCall.step = 0
    /\ mergeCall' = [step |-> 1, llm |-> llm, rule |-> rule,
                     out |-> merge_classifications(llm, rule), again |-> NoneRec,
                     after |-> MergeArguments(llm, rule)]
    /\ UNCHANGED <<entry, initialized, model, intent_history, max_history, dag_nodes,
                   config, pc, user_input, context, result, calls, clock, llm_queries,
                   response, ran, hist0, last_context, dagCall, history_log, singleton,
                   grammar_path, last_op, classifyCall,
                   call_log, stageCall,
                   instances, inst_log>>

\* merge_classifications(None, .) applied to the result of the last call
MergeAgain ==
    /\ entry = "merge"
    /\ mergeCall.step = 1
    /\ mergeCall' = [mergeCall EXCEPT !.step = 2,
                                      !.again = merge_classifications(NoneRec, mergeCall.out)]
    /\ UNCHANGED <<entry, initialized, model, intent_history, max_history, dag_nodes,
                   config, pc, user_input, context, result, calls, clock, llm_queries,
                   response, ran, hist0, last_context, dagCall, history_log, singleton,
                   grammar_path, last_op, classifyCall,
                   call_log, stageCall,
                   instances, inst_log>>

-----------------------------------------------------------------------------
(* execute_dag called directly on nodes and an order of the caller *)

\* the call, up to the first iteration of the loop; with an empty order it returns;
\* kinds says what the processor of each node does
ExecuteDag(nodes, order, passed, kinds) ==
    /\ entry = "dag"
    /\ dagCall.step = "none"
    /\ LET e == execute_dag(nodes, order, passed)
       IN dagCall' = [step |-> IF e.raises THEN "raised"
                               ELSE IF order = <<>> THEN "returned" ELSE "running",
                      nodes |-> nodes, order |-> order, passed |-> passed,
                      context |-> e.context, i |-> 1, invoked |-> <<>>,
                      received |-> <<>>, returned |-> <<>>, error |-> e.error,
                      kinds |-> kinds]
    /\ UNCHANGED <<entry, initialized, model, intent_history, max_history, dag_nodes,
                   config, pc, user_input, context, result, calls, clock, llm_queries,
                   response, ran, hist0, mergeCall, last_context, history_log, singleton,
                   grammar_path, last_op, classifyCall,
                   call_log, stageCall,
                   instances, inst_log>>

\* one iteration; after the last one execute_dag returns the context
DagRunNode ==
    /\ entry = "dag"
    /\ dagCall.step = "running"
    /\ LET name == dagCall.order[dagCall.i]
           ctx == execute_node(dagCall.kinds[name], name, dagCall.context)
       IN dagCall' = [dagCall EXCEPT
                         !.step = IF dagCall.i = Len(dagCall.order) THEN "returned" ELSE "running",
                         !.context = ctx,
                         !.i = @ + 1,
                         !.invoked = Append(@, name),
                         !.received = Append(@, dagCall.context),
                         !.returned = Append(@, ctx)]
    /\ UNCHANGED <<entry, initialized, model, intent_history, max_history, dag_nodes,
                   config, pc, user_input, context, result, calls, clock, llm_queries,
                   response, ran, hist0, mergeCall, last_context, history_log, singleton,
                   grammar_path, last_op, classifyCall,
                   call_log, stageCall,
                   instances, inst_log>>

-----------------------------------------------------------------------------
(* _add_to_history called directly on an orchestrator *)

\* a caller assigns max_history before the first append
SetMaxHistory(m) ==
    /\ entry = "history"
    /\ history_log = <<>>
    /\ max_history = HistCap
    /\ m # HistCap
    /\ max_history' = m
    /\ UNCHANGED <<entry, initialized, model, intent_history, dag_nodes, config, pc,
                   user_input, context, result, calls, clock, llm_queries, response, ran,
                   hist0, mergeCall, last_context, dagCall, history_log, singleton,
                   grammar_path, last_op, classifyCall,
                   call_log, stageCall,
                   instances, inst_log>>

\* _add_to_history(intent)
AddToHistory(action) ==
    /\ entry = "history"
    /\ Len(history_log) < MaxAppends
    /\ LET intent == AIIntent(Str(action), Str(""), "{}", Num(90), Len(history_log) + 1)
       IN /\ intent_history' = add_to_history(intent_history, max_history, intent)
          /\ history_log' = Append(history_log, intent)
    /\ hist0' = intent_history
    /\ UNCHANGED <<entry, initialized, model, max_history, dag_nodes, config, pc,
                   user_input, context, result, calls, clock, llm_queries, response, ran,
                   mergeCall, last_context, dagCall, singleton, grammar_path, last_op,
                   classifyCall,
                   call_log, stageCall,
                   instances, inst_log>>

-----------------------------------------------------------------------------
(* the rule classifier and the intensity extractor called directly *)

RuleClassify(text) ==
    /\ entry = "rules"
    /\ classifyCall.step = 0
    /\ classifyCall' = [step |-> 1, text |-> text,
                        out |-> rule_based_classify(text),
                        intensity |-> extract_intensity(text),
                        orch_out |-> Orch_rule_based_classify(text),
                        orch_intensity |-> Orch_extract_intensity(text)]
    /\ UNCHANGED <<entry, initialized, model, intent_history, max_history, dag_nodes,
                   config, pc, user_input, context, result, calls, clock, llm_queries,
                   response, ran, hist0, mergeCall, last_context, dagCall, history_log,
                   singleton, grammar_path, last_op, call_log, stageCall,
                   instances, inst_log>>

-----------------------------------------------------------------------------
(* the functions of the pipeline called directly *)

StageIdle == entry = "stages" /\ stageCall.fn = "none"

\* preprocess_input(orch, text, context) with orch.config = cfg, and
\* LuminaOrchestrator._preprocess_input(text, context), on a new context
PreprocessCall(text, cfg) ==
    /\ StageIdle
    /\ LET ctx == Context(text, 0)
       IN stageCall' = StageCall("preprocess_input", text, cfg, RawNone, ctx,
                                 preprocess_input(cfg, text, ctx),
                                 Orch_preprocess_input(text, ctx), NoneRec, FALSE)
    /\ UNCHANGED <<entry, initialized, model, intent_history, max_history, dag_nodes,
                   config, pc, user_input, context, result, calls, clock, llm_queries,
                   response, ran, hist0, mergeCall, last_context, dagCall, history_log,
                   singleton, grammar_path, last_op, classifyCall, call_log,
                   instances, inst_log>>

\* normalize_llm_result(raw)
NormalizeCall(raw) ==
    /\ StageIdle
    /\ stageCall' = StageCall("normalize_llm_result", "", NoStageCall.config, raw,
                              NoContext, NoContext, NoContext,
                              normalize_llm_result(raw), FALSE)
    /\ UNCHANGED <<entry, initialized, model, intent_history, max_history, dag_nodes,
                   config, pc, user_input, context, result, calls, clock, llm_queries,
                   response, ran, hist0, mergeCall, last_context, dagCall, history_log,
                   singleton, grammar_path, last_op, classifyCall, call_log,
                   instances, inst_log>>

\* validate_intent(orch, text, ctx) and LuminaOrchestrator._validate_intent(text,
\* ctx); when they raise, the action may already have been replaced (line 94)
ValidateCall(ctx) ==
    /\ StageIdle
    /\ LET raised == ValidateRaises(ctx)
           partial == ValidatePartial(ctx)
       IN stageCall' = StageCall("validate_intent", "", NoStageCall.config, RawNone, ctx,
                                 IF raised THEN partial ELSE validate_intent(ctx),
                                 IF raised THEN partial ELSE Orch_validate_intent(ctx),
                                 NoneRec, raised)
    /\ UNCHANGED <<entry, initialized, model, intent_history, max_history, dag_nodes,
                   config, pc, user_input, context, result, calls, clock, llm_queries,
                   response, ran, hist0, mergeCall, last_context, dagCall, history_log,
                   singleton, grammar_path, last_op, classifyCall, call_log,
                   instances, inst_log>>

\* extract_parameters(orch, text, ctx), which returns on every context, and
\* LuminaOrchestrator._extract_parameters(text, ctx), which raises KeyError on a
\* classification without parameters (raised; orch_out is then the context as
\* the raise leaves it)
ExtractCall(ctx) ==
    /\ StageIdle
    /\ stageCall' = StageCall("extract_parameters", "", NoStageCall.config, RawNone, ctx,
                              extract_parameters(ctx), Orch_extract_parameters(ctx),
                              NoneRec, Orch_ExtractRaises(ctx))
    /\ UNCHANGED <<entry, initialized, model, intent_history, max_history, dag_nodes,
                   config, pc, user_input, context, result, calls, clock, llm_queries,
                   response, ran, hist0, mergeCall, last_context, dagCall, history_log,
                   singleton, grammar_path, last_op, classifyCall, call_log,
                   instances, inst_log>>

-----------------------------------------------------------------------------
(* two LuminaOrchestrator objects used side by side *)

InstIdle == entry = "instances" /\ Len(inst_log) < MaxInstCalls

\* a call on the object `id` has ended and left the objects as `after`: the log
\* keeps what a caller reads from both objects before and after the call
InstRecord(op, id, text, r, res, after) ==
    /\ instances' = after
    /\ inst_log' = Append(inst_log, InstCall(op, id, text, r, res,
                                             View(instances), View(after)))

\* initialize() on the object `id`
InstInitialize(id, env) ==
    /\ InstIdle
    /\ InstRecord("initialize", id, "", RawNone, Result("returned", NoIntent),
                  Self_initialize(instances, id, env))
    /\ UNCHANGED <<entry, initialized, model, intent_history, max_history, dag_nodes,
                   config, pc, user_input, context, result, calls, clock, llm_queries,
                   response, ran, hist0, mergeCall, last_context, dagCall, history_log,
                   singleton, grammar_path, last_op, classifyCall, call_log, stageCall>>

\* shutdown() on the object `id`
InstShutdown(id) ==
    /\ InstIdle
    /\ InstRecord("shutdown", id, "", RawNone, Result("returned", NoIntent),
                  Self_shutdown(instances, id))
    /\ UNCHANGED <<entry, initialized, model, intent_history, max_history, dag_nodes,
                   config, pc, user_input, context, result, calls, clock, llm_queries,
                   response, ran, hist0, mergeCall, last_context, dagCall, history_log,
                   singleton, grammar_path, last_op, classifyCall, call_log, stageCall>>

\* parse_intent(text) on the object `id`; env is what initialize() finds if the
\* call makes it, r what the model does if it is queried
InstParseIntent(id, text, env, r) ==
    /\ InstIdle
    /\ instances.objects[id].initialized => env = NoEnv
    /\ LET o == ParseOutcome(instances, id, text, env, r, clock)
       IN /\ (~o.after.objects[id].model) => r = RawNone
          /\ InstRecord("parse_intent", id, text, r, o.result, o.after)
    /\ clock' = clock + 1
    /\ UNCHANGED <<entry, initialized, model, intent_history, max_history, dag_nodes,
                   config, pc, user_input, context, result, calls, llm_queries,
                   response, ran, hist0, mergeCall, last_context, dagCall, history_log,
                   singleton, grammar_path, last_op, classifyCall, call_log, stageCall>>

-----------------------------------------------------------------------------

Next ==
    \/ \E env \in OrchEnvs : Initialize(env)
    \/ Shutdown
    \/ \E stage \in StageSet : ReplaceProcessor(stage)
    \/ \E text \in OrchTexts, env \in OrchEnvs : ParseIntent(text, env)
    \/ \E env \in InitEnvs : ModuleInitialize(env)
    \/ ModuleShutdown
    \/ \E text \in ModuleTexts, env \in OrchEnvs : ModuleParseIntent(text, env)
    \/ OrchBoom
    \/ OrchPreprocess
    \/ \E r \in OrchResponses : OrchClassifyQuery(r)
    \/ OrchClassifyRule
    \/ OrchExtract
    \/ OrchValidate
    \/ OrchValidateRaises
    \/ OrchFinalize
    \/ \E text \in PipeTexts, cfg \in PipeConfigs, has_model \in BOOLEAN :
          PipeStart(text, cfg, has_model)
    \/ PipePreprocess
    \/ \E r \in PipeResponses : PipeClassifyQuery(r)
    \/ PipeClassifyRule
    \/ PipeExtract
    \/ PipeValidate
    \/ PipeFinalize
    \/ MergeApply(mergeCall.llm, mergeCall.rule)
    \/ MergeAgain
    \/ ExecuteDag(dagCall.nodes, dagCall.order, dagCall.passed, dagCall.kinds)
    \/ DagRunNode
    \/ \E m \in 1..MaxHistoryM : SetMaxHistory(m)
    \/ \E action \in HistoryActions : AddToHistory(action)
    \/ \E text \in RuleTexts : RuleClassify(text)
    \/ \E text \in StageTexts, cfg \in StageConfigs : PreprocessCall(text, cfg)
    \/ \E raw \in StageRaws : NormalizeCall(raw)
    \/ \E ctx \in StageContexts : ValidateCall(ctx)
    \/ \E ctx \in ExtractContexts : ExtractCall(ctx)
    \/ \E id \in InstanceIds, env \in OrchEnvs : InstInitialize(id, env)
    \/ \E id \in InstanceIds : InstShutdown(id)
    \/ \E id \in InstanceIds, text \in InstTexts, env \in OrchEnvs, r \in InstResponses :
            InstParseIntent(id, text, env, r)

Spec == Init /\ [][Next]_vars

-----------------------------------------------------------------------------
(* Properties *)

\* a parse_intent call has ended, and a stage raised in it: fewer than the five
\* stages returned
StageRaisedInCall ==
    /\ entry = "orchestrator"
    /\ pc = "idle"
    /\ result.kind \in {"returned", "raised"}
    /\ Len(ran) < Len(Stages)

\* a confidence is a number in [0.0, 1.0]
InUnitInterval(v) == v.k = "num" /\ 0 <= v.n /\ v.n <= 100

\* C1: when a stage raises during parse_intent, the call still returns an intent:
\* action "unknown", confidence <= 0.1, the timestamp taken at the start of the call.
C1_ErrorGivesUnknownIntent ==
    StageRaisedInCall =>
        /\ result.kind = "returned"
        /\ result.intent.action = Str("unknown")
        /\ result.intent.confidence.k = "num"
        /\ result.intent.confidence.n <= 10
        /\ result.intent.timestamp = context.timestamp

\* C2: when a stage raises during parse_intent, the error string is kept under
\* `error` in the last context and the history gains exactly one entry for the
\* call, up to its bound.
C2_ErrorRecordedAndHistoryUpdated ==
    StageRaisedInCall =>
        /\ last_context # NoContext
        /\ last_context.error.k = "str"
        /\ Len(intent_history) = Min(Len(hist0) + 1, max_history)

\* C3: the confidence held in the context after classify, extract and validate,
\* and the confidence of the intent a call returns, are numbers in [0.0, 1.0].
C3_ConfidenceInUnitInterval ==
    /\ ("classify" \in Range(ran) /\ context.confidence.k # "absent")
          => InUnitInterval(context.confidence)
    /\ result.kind = "returned" => InUnitInterval(result.intent.confidence)

\* C4: the action of every intent built by finalize and returned is one of the ten
\* actions of the vocabulary; once validate has run and finalize is about to, the
\* context's action is in the vocabulary.
C4_ActionInVocabulary ==
    /\ result.kind = "returned" =>
          /\ result.intent.action.k = "str"
          /\ result.intent.action.s \in IntentAction
    /\ pc = "finalize" =>
          /\ context.action.k = "str"
          /\ context.action.s \in IntentAction

\* C4: a model answer with an action outside the vocabulary reached validate and
\* the call returned "unknown"
C4_Witness ==
    /\ entry = "orchestrator"
    /\ result.kind = "returned"
    /\ response.kind = "dict"
    /\ response.action = Str("bad")
    /\ result.intent.action = Str("unknown")

\* C5: for a structurally valid model record, merge returns the model record
\* (source "llm", target lower-cased, confidence clamped) if and only if its
\* confidence is >= max(0.55, rule confidence - 0.05), and otherwise the rule
\* record (its confidence clamped); a confidence equal to the threshold is adopted.
C5_MergeThreshold ==
    (mergeCall.step >= 1 /\ mergeCall.llm # NoneRec /\ StructurallyValid(mergeCall.llm)) =>
        LET llm == mergeCall.llm
            rule == mergeCall.rule
            threshold == IF rule.confidence - 5 > 55 THEN rule.confidence - 5 ELSE 55
        IN IF llm.confidence >= threshold
           THEN /\ mergeCall.out.source = "llm"
                /\ mergeCall.out.action = llm.action
                /\ mergeCall.out.target = Lower(llm.target)
                /\ mergeCall.out.parameters =
                       (IF llm.parameters = Absent THEN EmptyObj ELSE llm.parameters)
                /\ mergeCall.out.confidence = Max(0, Min(100, llm.confidence))
           ELSE mergeCall.out = [rule EXCEPT !.confidence = Max(0, Min(100, rule.confidence))]

\* C5: a valid model record whose confidence equals a threshold above the floor was
\* adopted
C5_Witness ==
    /\ mergeCall.step >= 1
    /\ mergeCall.llm # NoneRec
    /\ StructurallyValid(mergeCall.llm)
    /\ mergeCall.rule.confidence - 5 > 55
    /\ mergeCall.llm.confidence = mergeCall.rule.confidence - 5
    /\ mergeCall.out.source = "llm"

\* the model record fails a structural rule: action, render-mode target or effect target
C6_Invalid(llm) ==
    \/ llm.action \notin IntentAction
    \/ llm.action = "set_render_mode" /\ Lower(llm.target) \notin RenderMode
    \/ llm.action \in {"add_effect", "remove_effect"} /\ Lower(llm.target) \notin EffectType

\* C6: merge never adopts a structurally invalid model record, whatever its
\* confidence: the result has the rule record's action, target, parameters and source.
C6_InvalidNeverAdopted ==
    (mergeCall.step >= 1 /\ mergeCall.llm # NoneRec /\ C6_Invalid(mergeCall.llm)) =>
        /\ mergeCall.out.action = mergeCall.rule.action
        /\ mergeCall.out.target = mergeCall.rule.target
        /\ mergeCall.out.parameters = mergeCall.rule.parameters
        /\ mergeCall.out.source = mergeCall.rule.source

\* C6: add_effect with a target that is no effect, at a confidence above every
\* threshold, against the rule result "blur"
C6_Witness ==
    /\ mergeCall.step >= 1
    /\ mergeCall.llm.action = "add_effect"
    /\ mergeCall.llm.target = "notreal"
    /\ mergeCall.llm.confidence >= 100
    /\ mergeCall.rule.target = "blur"
    /\ mergeCall.out.target = "blur"

\* C7: merge(nothing, rule) is the rule record with only its confidence clamped to
\* [0,1], and merge(nothing, .) applied to that result returns the same record.
C7_MergeNothingIdempotent ==
    (mergeCall.step >= 1 /\ mergeCall.llm = NoneRec) =>
        /\ mergeCall.out =
               [mergeCall.rule EXCEPT !.confidence = Max(0, Min(100, mergeCall.rule.confidence))]
        /\ mergeCall.step = 2 => mergeCall.again = mergeCall.out

\* C7: a rule record with a confidence above 1.0 was merged with nothing, twice
C7_Witness ==
    /\ mergeCall.step = 2
    /\ mergeCall.llm = NoneRec
    /\ mergeCall.rule.confidence > 100
    /\ mergeCall.out.confidence = 100
    /\ mergeCall.again = mergeCall.out

\* C8: in one call the model is queried at most once, and only when a model is
\* available and the rule confidence is strictly below the skip threshold.
C8_ModelQueriedOnlyBelowThreshold ==
    /\ llm_queries <= 1
    /\ llm_queries = 1 =>
          /\ model
          /\ rule_based_classify(context.normalized_input.s).confidence
                 < config.rule_confidence_skip_llm

\* C9: when the normalized text is empty, the call returns "unknown" with
\* confidence <= 0.2, the classification source is "guardrail", and the model is
\* not queried.
C9_EmptyInputGuardrail ==
    (result.kind = "returned" /\ context.normalized_input = Str("")) =>
        /\ result.intent.action = Str("unknown")
        /\ result.intent.confidence.k = "num"
        /\ result.intent.confidence.n <= 20
        /\ context.classification.source = "guardrail"
        /\ llm_queries = 0

\* C10: when the model query raises in the classify stage of the pipeline, or its
\* output normalizes to nothing, classify completes and stores
\* merge(nothing, rule result), with source "rule".
C10_ModelFailureFallsBackToRule ==
    (/\ entry = "pipeline"
     /\ llm_queries = 1
     /\ \/ response.kind = "raise"
        \/ normalize_llm_result(response) = NoneRec) =>
        /\ "classify" \in Range(ran)
        /\ context.classification =
               merge_classifications(NoneRec, rule_based_classify(context.normalized_input.s))
        /\ context.classification.source = "rule"
        /\ context.rule_result = rule_based_classify(context.normalized_input.s)

\* C10: the query raised and the classification stored is the rule's
C10_Witness ==
    /\ entry = "pipeline"
    /\ llm_queries = 1
    /\ response.kind = "raise"
    /\ "classify" \in Range(ran)
    /\ context.classification.source = "rule"

\* the order fails one of the three conditions on a linearization: it names an
\* undeclared node, misses a declared node, or has a dependency that is absent
\* or scheduled at or after its dependent
C11_NotLinearization(nodes, order) ==
    \/ \E i \in 1..Len(order) : order[i] \notin DOMAIN nodes
    \/ \E name \in DOMAIN nodes : name \notin Range(order)
    \/ \E name \in DOMAIN nodes : \E k \in 1..Len(nodes[name]) :
          \/ nodes[name][k] \notin Range(order)
          \/ \E i, j \in 1..Len(order) :
                /\ order[i] = nodes[name][k]
                /\ order[j] = name
                /\ i >= j

\* C11: validate_dag(nodes, order) raises if and only if the order is not a valid
\* topological linearization of the declared dependencies: it names an undeclared
\* node, misses a declared node, or schedules a dependency at or after its
\* dependent (or not at all).
C11_ValidateRaisesIffNotLinearization ==
    dagCall.step # "none" =>
        (dagCall.error.raises <=> C11_NotLinearization(dagCall.nodes, dagCall.order))

\* C12: whenever validate_dag succeeded, the order is a permutation of the declared
\* names (each exactly once), and a run that returned invoked each node's
\* processor exactly once.
C12_ValidatedOrderIsPermutation ==
    dagCall.step \in {"running", "returned"} =>
        /\ \A name \in DOMAIN dagCall.nodes :
              Cardinality({i \in 1..Len(dagCall.order) : dagCall.order[i] = name}) = 1
        /\ Len(dagCall.order) = Cardinality(DOMAIN dagCall.nodes)
        /\ dagCall.step = "returned" =>
              \A name \in DOMAIN dagCall.nodes :
                  Cardinality({i \in 1..Len(dagCall.invoked) : dagCall.invoked[i] = name}) = 1

\* C13: execute_dag validates before it invokes a processor: when validation fails
\* the error propagates, no processor was invoked and the passed context is as it
\* was (no telemetry key added); when it succeeds the processors are invoked in
\* the sequence of the order, each receiving the context the previous one
\* returned, and the last returned context is the result.
C13_RunValidatesThenRunsInOrder ==
    /\ dagCall.step # "none" =>
          (dagCall.step = "raised" <=> validate_dag(dagCall.nodes, dagCall.order).raises)
    /\ dagCall.step = "raised" =>
          /\ dagCall.invoked = <<>>
          /\ dagCall.context = dagCall.passed
    /\ dagCall.step \in {"running", "returned"} =>
          /\ dagCall.invoked = SubSeq(dagCall.order, 1, Len(dagCall.invoked))
          /\ \A k \in 1..Len(dagCall.invoked) :
                /\ dagCall.received[k].trace =
                      (IF k = 1 THEN dagCall.passed.trace ELSE dagCall.returned[k - 1].trace)
                /\ k > 1 => dagCall.received[k] = dagCall.returned[k - 1]
    /\ dagCall.step = "returned" =>
          /\ dagCall.invoked = dagCall.order
          /\ dagCall.context.trace = dagCall.passed.trace \o dagCall.order
          /\ dagCall.order # <<>> => dagCall.context = dagCall.returned[Len(dagCall.order)]

\* C13: a run over two nodes, the second depending on the first, returned
C13_Witness ==
    /\ dagCall.step = "returned"
    /\ DOMAIN dagCall.nodes = {"a", "b"}
    /\ dagCall.nodes["b"] = <<"a">>
    /\ dagCall.invoked = <<"a", "b">>
    /\ dagCall.context.trace = <<"a", "b">>

\* C14: after n appends with max_history = M held fixed, the history holds exactly
\* the min(n, M) most recently appended intents, oldest first; its length never
\* exceeds M; an append to a full history removes exactly the single oldest record.
C14_HistoryHoldsMostRecent ==
    LET n == Len(history_log)
        k == IF n < max_history THEN n ELSE max_history
    IN /\ Len(intent_history) <= max_history
       /\ intent_history = SubSeq(history_log, n - k + 1, n)
       /\ (entry = "history" /\ n > 0 /\ Len(hist0) = max_history) =>
             intent_history = Tail(hist0) \o <<history_log[n]>>

\* C14: four intents were appended to a history bounded by two: the last two remain
C14_Witness ==
    /\ entry = "history"
    /\ max_history = 2
    /\ Len(history_log) = 4
    /\ intent_history = <<history_log[3], history_log[4]>>

\* C15: every parse_intent call that has ended appended exactly one record to the
\* history, and that record is the intent the call returned.
C15_EveryCallAppendsItsResult ==
    (entry = "orchestrator" /\ pc = "idle" /\ result.kind \in {"returned", "raised"}) =>
        /\ result.kind = "returned"
        /\ Len(history_log) = calls
        /\ history_log[Len(history_log)] = result.intent
        /\ intent_history # <<>>
        /\ intent_history[Len(intent_history)] = result.intent

\* the table entries one of whose keywords occurs in the text
C16_Matches(table, text) ==
    {i \in 1..Len(table) : \E k \in 1..Len(table[i].kws) : Contains(text, table[i].kws[k])}

C16_Least(S) == CHOOSE i \in S : \A j \in S : i <= j

\* C16: when the normalized text contains a render-mode keyword the rule classifier
\* returns set_render_mode, the first mode in table order with a keyword in the
\* text, confidence 0.75, whatever else the text contains; an effect is returned
\* only when no render-mode keyword occurs, and a control action only when
\* neither a render-mode nor an effect keyword occurs.
C16_RenderModePrecedence ==
    classifyCall.step = 1 =>
        LET modes == C16_Matches(RENDER_MODES, classifyCall.text)
            effects == C16_Matches(EFFECTS, classifyCall.text)
            out == classifyCall.out
        IN /\ modes # {} =>
                /\ out.action = "set_render_mode"
                /\ out.target = RENDER_MODES[C16_Least(modes)].name
                /\ out.confidence = 75
           /\ out.action = "set_render_mode" => modes # {}
           /\ out.action \in {"add_effect", "remove_effect"} => (modes = {} /\ effects # {})
           /\ out.action \notin {"set_render_mode", "add_effect", "remove_effect"} =>
                (modes = {} /\ effects = {})

\* C16: a text with a stylized and a depth keyword was classified as the earlier mode
C16_Witness ==
    /\ classifyCall.step = 1
    /\ classifyCall.text = "paint the depth"
    /\ classifyCall.out.action = "set_render_mode"
    /\ classifyCall.out.target = "stylized"

\* C17: for a text with no render-mode keyword and an effect keyword the rule
\* classifier returns the first effect in table order with a keyword in the text,
\* remove_effect exactly when the text contains "remove" or "off" and add_effect
\* otherwise, confidence 0.7, and parameters {intensity: v} exactly when the
\* intensity extractor returns a value v, the empty mapping otherwise.
C17_EffectBranch ==
    (/\ classifyCall.step = 1
     /\ C16_Matches(RENDER_MODES, classifyCall.text) = {}
     /\ C16_Matches(EFFECTS, classifyCall.text) # {}) =>
        LET text == classifyCall.text
            out == classifyCall.out
            removes == Contains(text, "remove") \/ Contains(text, "off")
        IN /\ out.target = EFFECTS[C16_Least(C16_Matches(EFFECTS, text))].name
           /\ out.action = (IF removes THEN "remove_effect" ELSE "add_effect")
           /\ out.confidence = 70
           /\ classifyCall.intensity.k = "num" =>
                out.parameters = Obj("intensity", classifyCall.intensity.n)
           /\ classifyCall.intensity.k # "num" => out.parameters = EmptyObj

\* C17: "remove noise 5 %" gave remove_effect on noise with intensity 0.05
C17_Witness ==
    /\ classifyCall.step = 1
    /\ classifyCall.text = "remove noise 5 %"
    /\ classifyCall.out.action = "remove_effect"
    /\ classifyCall.out.target = "noise"
    /\ classifyCall.out.parameters = Obj("intensity", 5)

\* C18: the parameters of every intent parse_intent returns are the JSON text of an
\* object, "{}" when there are no parameters, for every input and model response.
C18_ParametersAreJsonObject ==
    (entry \in {"orchestrator", "module"} /\ result.kind = "returned") =>
        LET t == result.intent.parameters
        IN /\ Len(t) >= 2
           /\ SubSeq(t, 1, 1) = "{"
           /\ SubSeq(t, Len(t), Len(t)) = "}"

\* a step that is a call of shutdown() on the instance or of the module-level
\* shutdown()
C19_ShutdownStep ==
    /\ last_op' # last_op
    /\ last_op'.op \in {"shutdown", "module.shutdown"}

\* the fields of the orchestrator and the module-level reference to it
C19_OrchestratorState ==
    <<model, initialized, intent_history, max_history, dag_nodes, grammar_path,
      last_context, config, singleton>>

\* C19: shutdown is safe in every lifecycle state. Every call of shutdown() and
\* of the module-level shutdown() returns (None) without raising and leaves the
\* model handle none and initialized false; called on an orchestrator that was
\* never initialized or is already shut down, or at module level when no
\* orchestrator exists, it changes no state.
C19_ShutdownIsSafe ==
    [][C19_ShutdownStep =>
          /\ last_op'.returned = "None"
          /\ pc' = "idle"
          /\ ~model'
          /\ ~initialized'
          /\ (last_op'.op = "shutdown" /\ ~model /\ ~initialized)
                => UNCHANGED C19_OrchestratorState
          /\ (last_op'.op = "module.shutdown" /\ ~singleton)
                => UNCHANGED C19_OrchestratorState]_vars

\* shutdown() has been called on an orchestrator that was not initialized and held
\* no model, after an earlier call had run, and the module-level shutdown() has
\* its counterpart with no orchestrator
C19_Witness ==
    /\ last_op.op \in {"shutdown", "module.shutdown"}
    /\ ~last_op.initialized
    /\ ~last_op.model
    /\ ~last_op.singleton
    /\ calls > 0
    /\ ~model
    /\ ~initialized

\* C20: initialize always succeeds. Every call of initialize() (on the instance
\* or through the module-level initialize) returns True and leaves the
\* orchestrator initialized, whether the model file is missing, the grammar file
\* is missing, the inference library is unavailable or the load raises; unless
\* the load succeeds, an orchestrator that held no model still holds none.
C20_InitializeAlwaysSucceeds ==
    last_op.op \in {"initialize", "module.initialize"} =>
        /\ last_op.returned = "True"
        /\ initialized
        /\ Loads(last_op.env) => model
        /\ (~Loads(last_op.env) /\ last_op.op = "module.initialize") => ~model
        /\ (~Loads(last_op.env) /\ last_op.op = "initialize") => (model <=> last_op.model)

\* the module-level initialize has run with the library available and the model
\* file present, the load raised, and the new orchestrator is initialized
\* without a model
C20_Witness ==
    /\ last_op.op = "module.initialize"
    /\ last_op.env.llama_available
    /\ last_op.env.model_exists
    /\ last_op.env.load_raises
    /\ last_op.returned = "True"
    /\ initialized
    /\ ~model

\* two texts differ at most in the case of their letters
C21_SameUpToCase(s, t) ==
    /\ Len(s) = Len(t)
    /\ \A i \in 1..Len(s) : LowerChar(SubSeq(s, i, i)) = LowerChar(SubSeq(t, i, i))

\* C21: parse_intent without a model is insensitive to letter case. Any two calls
\* made without a model on texts that differ only in letter case return the same
\* action, target, parameters and confidence.
C21_CaseInsensitive ==
    \A i, j \in 1..Len(call_log) :
        C21_SameUpToCase(call_log[i].input, call_log[j].input) =>
            /\ call_log[i].intent.action = call_log[j].intent.action
            /\ call_log[i].intent.target = call_log[j].intent.target
            /\ call_log[i].intent.parameters = call_log[j].intent.parameters
            /\ call_log[i].intent.confidence = call_log[j].intent.confidence

\* two calls without a model, on a lower-case text and on the same text in capitals,
\* both returned an add_effect intent with the intensity read from the text
C21_Witness ==
    /\ Len(call_log) = 2
    /\ call_log[1].input = "add blur 50%"
    /\ call_log[2].input = "ADD BLUR 50%"
    /\ call_log[1].intent.action = Str("add_effect")
    /\ call_log[2].intent.parameters = "{\"intensity\": 0.5}"

\* C22: every parse_intent call that returns has run the five stages exactly once
\* each, in the order preprocess, classify, extract, validate, finalize; while a
\* call runs, the stages that have returned are a prefix of that order and the
\* next one is the only one that can start; and the dependencies _build_dag
\* declares, with that order, pass validate_dag.
C22_FiveStagesOnceInOrder ==
    /\ (entry \in {"orchestrator", "module"} /\ result.kind = "returned") =>
          /\ ran = Stages
          /\ pc = "idle"
    /\ (entry \in {"orchestrator", "module"} /\ result.kind = "running") =>
          /\ Len(ran) < Len(Stages)
          /\ ran = SubSeq(Stages, 1, Len(ran))
          /\ pc = Stages[Len(ran) + 1]
    /\ DOMAIN Orch_build_dag = StageSet
    /\ ~validate_dag(Orch_build_dag, Stages).raises

\* the second parse_intent call on an orchestrator has returned
C22_Witness ==
    /\ entry = "orchestrator"
    /\ calls = 2
    /\ result.kind = "returned"
    /\ ran = <<"preprocess", "classify", "extract", "validate", "finalize">>

\* every name that violates a rule of validate_dag: an entry of the order that is
\* no declared node, a declared node that is not in the order, and both names of
\* a dependency that is not in the order or is scheduled after its node
C23_Violating(nodes, order) ==
    {order[i] : i \in {j \in 1..Len(order) : order[j] \notin DOMAIN nodes}}
    \cup {name \in DOMAIN nodes : name \notin Range(order)}
    \cup UNION { UNION { {name, nodes[name][k]} :
                           k \in {j \in 1..Len(nodes[name]) :
                                    \/ nodes[name][j] \notin Range(order)
                                    \/ /\ name \in Range(order)
                                       /\ Position(order, nodes[name][j])
                                             > Position(order, name)} } :
                   name \in DOMAIN nodes }

\* C23: a failing validate_dag reports all violating names together in its one
\* error: every entry of the order missing from the nodes, every declared node
\* missing from the order, and every violated dependency.
C23_AllViolationsReported ==
    dagCall.step = "raised" =>
        C23_Violating(dagCall.nodes, dagCall.order) \subseteq Range(dagCall.error.names)

\* C24: after a successful run the context execute_dag returns holds the timing
\* telemetry.nodes[name].ms of every name in the order, whatever the processors
\* do, processors that return a new mapping included.
C24_ReturnedContextHasTelemetry ==
    dagCall.step = "returned" =>
        /\ dagCall.context.telemetry.present
        /\ Range(dagCall.order) \subseteq dagCall.context.telemetry.nodes

\* the first check of the control chain that the text passes, 6 if none
C25_FirstControl(text) ==
    LET checks == << <<"capture", "screenshot", "photo", "snap">>,
                     <<"record", "start recording", "video">>,
                     <<"stop", "end recording">>,
                     <<"reset", "clear", "default">>,
                     <<"help", "what can", "how to">> >>
        passed == {i \in 1..5 : \E k \in 1..Len(checks[i]) : Contains(text, checks[i][k])}
    IN IF passed = {} THEN 6 ELSE CHOOSE i \in passed : \A j \in passed : i <= j

\* C25: for a normalized text with no render-mode keyword and no effect keyword the
\* rule classifier applies the control checks as one exclusive chain: capture
\* keywords give capture_frame (0.9), else recording-start keywords give
\* start_recording (0.85), else stop keywords give stop_recording (0.85), else
\* reset keywords give reset (0.9), else help keywords give help (0.95), else
\* unknown (0.5); target and parameters are empty, and the action is unknown
\* exactly when the confidence is 0.5. The copy in LuminaOrchestrator agrees.
C25_ControlChain ==
    (/\ classifyCall.step = 1
     /\ C16_Matches(RENDER_MODES, classifyCall.text) = {}
     /\ C16_Matches(EFFECTS, classifyCall.text) = {}) =>
        LET first == C25_FirstControl(classifyCall.text)
            actions == <<"capture_frame", "start_recording", "stop_recording", "reset",
                         "help", "unknown">>
            confidences == <<90, 85, 85, 90, 95, 50>>
            out == classifyCall.out
            orch == classifyCall.orch_out
        IN /\ out.action = actions[first]
           /\ out.confidence = confidences[first]
           /\ out.target = ""
           /\ out.parameters = EmptyObj
           /\ (out.action = "unknown") <=> (out.confidence = 50)
           /\ orch.action = out.action
           /\ orch.confidence = out.confidence
           /\ orch.target = ""
           /\ orch.parameters = EmptyObj

\* "how to stop" passes the stop check and the help check: stop_recording
C25_Witness ==
    /\ classifyCall.step = 1
    /\ classifyCall.text = "how to stop"
    /\ classifyCall.out.action = "stop_recording"
    /\ classifyCall.out.confidence = 85

\* the triples <<i, j, k>> where text[i..j] are digits, text[j+1..k-1] is
\* whitespace and text[k] is "%"
C26_Percentages(text) ==
    {t \in (1..Len(text)) \X (1..Len(text)) \X (1..Len(text)) :
        /\ t[1] <= t[2] /\ t[2] < t[3]
        /\ \A p \in t[1]..t[2] : IsDigit(SubSeq(text, p, p))
        /\ \A p \in (t[2] + 1)..(t[3] - 1) : IsSpace(SubSeq(text, p, p))
        /\ SubSeq(text, t[3], t[3]) = "%"}

\* the number of the leftmost percentage, in hundredths of the result
C26_FirstPercentage(text) ==
    LET t == CHOOSE t \in C26_Percentages(text) :
                 \A u \in C26_Percentages(text) : t[1] <= u[1]
    IN StrToInt(SubSeq(text, t[1], t[2]))

\* the first adjective group that occurs in the text, 4 if none
C26_FirstGroup(text) ==
    LET groups == << <<"subtle", "light", "slight", "little">>,
                     <<"medium", "moderate", "normal", "normal">>,
                     <<"strong", "heavy", "intense", "max">> >>
        found == {g \in 1..3 : \E k \in 1..4 : Contains(text, groups[g][k])}
    IN IF found = {} THEN 4 ELSE CHOOSE g \in found : \A h \in found : g <= h

\* the result the ordered cases give for the text
C26_Expected(text) ==
    IF C26_Percentages(text) # {} THEN Num(C26_FirstPercentage(text))
    ELSE << Num(30), Num(50), Num(80), Null >>[C26_FirstGroup(text)]

\* C26: the intensity extractor checks its cases in a fixed order: digits followed
\* by optional whitespace and "%" give the first such number divided by 100, even
\* when intensity adjectives are present; else 0.3 for subtle/light/slight/little;
\* else 0.5 for medium/moderate/normal; else 0.8 for strong/heavy/intense/max; else
\* nothing. The copy in LuminaOrchestrator agrees.
C26_IntensityOrder ==
    classifyCall.step = 1 =>
        /\ classifyCall.intensity = C26_Expected(classifyCall.text)
        /\ classifyCall.orch_intensity = C26_Expected(classifyCall.text)

\* a percentage together with an adjective: the percentage wins
C26_Witness ==
    /\ classifyCall.step = 1
    /\ classifyCall.text = "subtle blur 50%"
    /\ classifyCall.intensity = Num(50)

\* the action of a raw mapping as text, trimmed ("" when the key is missing)
C27_TrimmedAction(raw) ==
    IF raw.action.k = "absent" THEN "" ELSE Strip(PyStr(raw.action))

\* C27: normalize_llm_result(raw) returns nothing exactly when raw is absent, is
\* not a mapping, or has an action that is missing or empty after trimming;
\* otherwise it returns a record with source "llm", the trimmed action, the target
\* lower-cased and trimmed, a confidence in [0,1] that is 0.0 for a non-numeric
\* value, and parameters that are a mapping: a string that does not parse, or
\* parses to a non-mapping, and any other non-mapping, become the empty mapping.
C27_NormalizeFailsSoft ==
    stageCall.fn = "normalize_llm_result" =>
        LET raw == stageCall.raw
            rec == stageCall.normalized
            nothing == \/ raw.kind # "dict"
                       \/ C27_TrimmedAction(raw) = ""
        IN /\ (rec = NoneRec) <=> nothing
           /\ ~nothing =>
                /\ rec.source = "llm"
                /\ rec.action = C27_TrimmedAction(raw)
                /\ rec.target = (IF raw.target.k = "absent" THEN ""
                                 ELSE Lower(Strip(PyStr(raw.target))))
                /\ rec.target = Lower(rec.target)
                /\ rec.confidence \in 0..100
                /\ (raw.confidence.k = "str" /\ ~IsFloatText(Strip(raw.confidence.s))
                        /\ ~AllDigits(Strip(raw.confidence.s))) => rec.confidence = 0
                /\ raw.confidence.k \in {"null", "list", "obj"} => rec.confidence = 0
                /\ raw.confidence.k = "num" /\ raw.confidence.n \in 0..100 =>
                        rec.confidence = raw.confidence.n
                /\ IsDict(rec.parameters)
                /\ IsDict(raw.parameters) => rec.parameters = raw.parameters
                /\ (raw.parameters.k = "str" /\ JsonFails(raw.parameters.s)) =>
                        rec.parameters = EmptyObj
                /\ (raw.parameters.k = "str" /\ ~JsonFails(raw.parameters.s)
                        /\ ~IsDict(JsonLoads(raw.parameters.s))) =>
                        rec.parameters = EmptyObj
                /\ raw.parameters.k \in {"absent", "null", "num", "list"} =>
                        rec.parameters = EmptyObj

\* a response whose parameters string parses to a list: a record with the empty
\* mapping
C27_Witness ==
    /\ stageCall.fn = "normalize_llm_result"
    /\ stageCall.raw.parameters = Str("[1, 2, 3]")
    /\ stageCall.normalized # NoneRec
    /\ stageCall.normalized.parameters = EmptyObj

\* what C28 asks of one preprocessed context, for the maximum max_len
C28_Bounded(text, out, max_len) ==
    /\ Len(out.normalized_input.s) <= max_len
    /\ out.truncated <=> (Len(Normalize(text)) > max_len)

\* the preprocess stage of pipeline.py keeps to the configured maximum
C28_PipelineBounded ==
    stageCall.fn = "preprocess_input" =>
        C28_Bounded(stageCall.text, stageCall.out, stageCall.config.max_normalized_length)

\* C28: after the preprocess stage the length of normalized_input is at most the
\* configured maximum (default 512) for every input, and the truncated flag of the
\* context is true exactly when the lower-cased, filler-stripped text was longer
\* than that maximum; for preprocess_input and for
\* LuminaOrchestrator._preprocess_input.
C28_NormalizedInputBounded ==
    stageCall.fn = "preprocess_input" =>
        /\ C28_Bounded(stageCall.text, stageCall.out,
                       stageCall.config.max_normalized_length)
        /\ C28_Bounded(stageCall.text, stageCall.orch_out, DefaultMaxNormalizedLength)

\* what C29 asks of one preprocessed context
C29_Clean(text, out) ==
    /\ out.normalized_input.s = Lower(out.normalized_input.s)
    /\ \A i \in 1..Len(FILLERS) : ~Contains(out.normalized_input.s, FILLERS[i])
    /\ out.original_input = Str(text)

\* C29: after the preprocess stage normalized_input is lower-case and contains
\* none of the five filler phrases as a substring, for every input text, and
\* original_input holds the input unchanged; for preprocess_input and for
\* LuminaOrchestrator._preprocess_input.
C29_NoFillerRemains ==
    stageCall.fn = "preprocess_input" =>
        /\ C29_Clean(stageCall.text, stageCall.out)
        /\ C29_Clean(stageCall.text, stageCall.orch_out)

\* the action of a context is in the action vocabulary (not set: "unknown")
C30_ActionInVocabulary(ctx) ==
    ctx.action.k = "absent" \/ (ctx.action.k = "str" /\ ctx.action.s \in IntentAction)

\* the action asks for a render mode or an effect and the target is not one
C30_TargetMismatch(ctx) ==
    \/ /\ ctx.action = Str("set_render_mode")
       /\ ~(ctx.target.k = "str" /\ Lower(ctx.target.s) \in RenderMode)
    \/ /\ ctx.action \in {Str("add_effect"), Str("remove_effect")}
       /\ ~(ctx.target.k = "str" /\ Lower(ctx.target.s) \in EffectType)

\* what C30 asks of the context `out` that validation made of `ctx`; raised: the
\* validation ended with an exception
C30_Validated(ctx, out, raised) ==
    /\ ~raised
    /\ out.validated
    /\ ~C30_ActionInVocabulary(ctx) =>
            /\ out.action = Str("unknown")
            /\ out.confidence.k = "num" /\ out.confidence.n <= 30
    /\ (C30_ActionInVocabulary(ctx) /\ C30_TargetMismatch(ctx)) =>
            /\ out.confidence.k = "num" /\ out.confidence.n <= 40
            /\ out.action = ctx.action
            /\ out.target = ctx.target
    /\ (C30_ActionInVocabulary(ctx) /\ ~C30_TargetMismatch(ctx)
            /\ ctx.confidence.k = "num") =>
            out.confidence = Num(Max(0, Min(100, ctx.confidence.n)))

\* the validate stage of pipeline.py on the contexts whose target is a string
\* and whose confidence is a number or not set
C30_PipelineValidatesWellTyped ==
    (/\ stageCall.fn = "validate_intent"
     /\ stageCall.context.target.k \in {"str", "absent"}
     /\ stageCall.context.confidence.k \in {"num", "absent"}) =>
        C30_Validated(stageCall.context, stageCall.out, stageCall.raised)

\* C30: the validate stage, for any context: an action outside the action
\* vocabulary becomes "unknown" with confidence <= 0.3; set_render_mode with a
\* target that is not a render mode, or add_effect/remove_effect with a target
\* that is not an effect, gives confidence <= 0.4 with action and target
\* unchanged; a valid action with a valid target keeps its confidence, clamped
\* to [0,1]; in every case validated = true. For validate_intent and for
\* LuminaOrchestrator._validate_intent.
C30_ValidateStage ==
    stageCall.fn = "validate_intent" =>
        /\ C30_Validated(stageCall.context, stageCall.out, stageCall.raised)
        /\ C30_Validated(stageCall.context, stageCall.orch_out, stageCall.raised)

\* C31: the extract stage copies action, target, confidence and source of the
\* merged classification into the context fields action, target, confidence and
\* classification_source, and sets parameters to a mapping in every case: a
\* mapping is kept, a string is parsed, and a string that does not parse or parses
\* to a non-mapping, like any other value, becomes the empty mapping.
C31_ExtractFlattens ==
    (stageCall.fn = "extract_parameters" /\ stageCall.context.classification # NoneRec) =>
        LET cls == stageCall.context.classification
            given == cls.parameters
            out == stageCall.out
        IN /\ out.action = Str(cls.action)
           /\ out.target = Str(cls.target)
           /\ out.confidence = Num(cls.confidence)
           /\ out.classification_source = Str(cls.source)
           /\ IsDict(out.parameters)
           /\ IsDict(given) => out.parameters = given
           /\ (given.k = "str" /\ JsonFails(given.s)) => out.parameters = EmptyObj
           /\ (given.k = "str" /\ ~JsonFails(given.s)) =>
                out.parameters = (IF IsDict(JsonLoads(given.s)) THEN JsonLoads(given.s)
                                  ELSE EmptyObj)
           /\ given.k \notin {"str", "obj"} => out.parameters = EmptyObj

\* a parameters string that parses to a list: the empty mapping, the rest copied
C31_Witness ==
    /\ stageCall.fn = "extract_parameters"
    /\ stageCall.context.classification.parameters = Str("[1,2,3]")
    /\ stageCall.context.classification.action = "add_effect"
    /\ stageCall.out.parameters = EmptyObj
    /\ stageCall.out.action = Str("add_effect")
    /\ stageCall.out.classification_source = Str("llm")

\* C32: the state of one orchestrator object is not shared: a parse_intent,
\* initialize or shutdown call on one object leaves the history, the model handle
\* and the initialized flag of the other object as they were: every attribute
\* of the other object, and the list its intent_history holds, reads as before
\* the call. No attribute holds a context, so there is no last context to change.
C32_InstanceStateNotShared ==
    \A k \in 1..Len(inst_log) :
        \A j \in InstanceIds \ {inst_log[k].id} :
            inst_log[k].after[j] = inst_log[k].before[j]

\* a parse_intent on one object adds to its history while the other object,
\* initialized and with a history of its own, stays as it was
C32_Witness ==
    \E k \in 1..Len(inst_log) :
        LET c == inst_log[k] IN
        /\ c.op = "parse_intent"
        /\ c.id = 1
        /\ c.result.kind = "returned"
        /\ Len(c.after[1].intent_history) = Len(c.before[1].intent_history) + 1
        /\ c.before[2].initialized
        /\ Len(c.before[2].intent_history) = 1
        /\ c.after[2] = c.before[2]
        /\ c.after[1].intent_history # c.after[2].intent_history

\* a classification passes the checks of the validate stage
C33_PassesValidation(cls) ==
    /\ cls.action \in IntentAction
    /\ cls.action = "set_render_mode" => Lower(cls.target) \in RenderMode
    /\ cls.action \in {"add_effect", "remove_effect"} => Lower(cls.target) \in EffectType
    /\ cls.confidence \in 0..100

\* C33: in every full pipeline run (any input, any model response, model present
\* or absent) the classification stored by the classify stage already passes the
\* checks of the validate stage, so validate does not raise, never changes the
\* action and never lowers the confidence: the returned intent's action, target
\* and confidence are those of the merged classification.
C33_ValidateChangesNothing ==
    (entry = "pipeline" /\ context.classification # NoneRec) =>
        LET cls == context.classification IN
        /\ C33_PassesValidation(cls)
        /\ pc = "validate" =>
                /\ ~ValidateRaises(context)
                /\ context.action = Str(cls.action)
                /\ context.target = Str(cls.target)
                /\ context.confidence = Num(cls.confidence)
        /\ pc \in {"finalize", "idle"} =>
                /\ context.validated
                /\ context.action = Str(cls.action)
                /\ context.target = Str(cls.target)
                /\ context.confidence = Num(cls.confidence)
        /\ result.kind = "returned" =>
                /\ result.intent.action = Str(cls.action)
                /\ result.intent.target = Str(cls.target)
                /\ result.intent.confidence = Num(cls.confidence)

\* a run in which the model answered with an action outside the vocabulary at
\* confidence 0.99: the rule record was kept, and the intent returned is its copy
C33_Witness ==
    /\ entry = "pipeline"
    /\ result.kind = "returned"
    /\ llm_queries = 1
    /\ response = Raw("dict", Str("bad"), Str("n/a"), Absent, Num(99))
    /\ context.llm_result.action = "bad"
    /\ context.classification.source = "rule"
    /\ result.intent.action = Str(context.classification.action)

\* C34: for a rule record whose confidence is in [0,1] and any model record, the
\* confidence of the merged record is never more than 0.05 below the rule
\* confidence, and it is at least 0.55 whenever the merged record's source is
\* "llm".
C34_MergedConfidenceFloor ==
    (/\ mergeCall.step >= 1
     /\ mergeCall.rule.source # "llm"
     /\ mergeCall.rule.confidence \in 0..100) =>
        /\ mergeCall.out.confidence >= mergeCall.rule.confidence - 5
        /\ mergeCall.out.source = "llm" => mergeCall.out.confidence >= 55

\* a model record adopted at exactly 0.05 below a rule confidence of 0.7
C34_Witness ==
    /\ mergeCall.step >= 1
    /\ mergeCall.rule.source = "rule"
    /\ mergeCall.rule.confidence = 70
    /\ mergeCall.llm.confidence = 65
    /\ mergeCall.out.source = "llm"
    /\ mergeCall.out.confidence = 65

\* C35: merge_classifications leaves both of its argument records unchanged (the
\* caller's two dictionaries hold after the call what they held before it), and
\* after the classify stage the rule record stored in the context as rule_result
\* still has the action, target, confidence and source the rule classifier gave
\* it, whether or not the model record was adopted.
C35_MergeLeavesArguments ==
    /\ mergeCall.step >= 1 =>
            /\ mergeCall.after.rule = mergeCall.rule
            /\ mergeCall.after.llm = mergeCall.llm
    /\ (entry = "pipeline" /\ context.rule_result # NoneRec) =>
            LET given == rule_based_classify(context.normalized_input.s) IN
            /\ context.rule_result.action = given.action
            /\ context.rule_result.target = given.target
            /\ context.rule_result.confidence = given.confidence
            /\ context.rule_result.source = given.source
            /\ context.llm_result \in {NoneRec, normalize_llm_result(response)}

\* a rule record with a confidence above 1.0 was merged: the result is clamped,
\* the caller's record is not
C35_Witness ==
    /\ mergeCall.step >= 1
    /\ mergeCall.rule.confidence = 150
    /\ mergeCall.out.source = "rule"
    /\ mergeCall.out.confidence = 100
    /\ mergeCall.after.rule.confidence = 150

\* the parse_intent calls of the log
C36_ParseCalls == {k \in 1..Len(inst_log) : inst_log[k].op = "parse_intent"}

\* two calls had the same input: the text, a model present or not, and what the
\* model answered
C36_SameInput(c, d) ==
    /\ c.text = d.text
    /\ c.after[c.id].model = d.after[d.id].model
    /\ c.response = d.response

\* C36: the intent returned by parse_intent, apart from its timestamp, depends only
\* on the input text and the model's response in that call, not on the history or
\* on any earlier call: two calls with the same input, on whichever object and
\* after whichever calls, end the same way and return the same action, target,
\* parameters and confidence.
C36_IntentIndependentOfHistory ==
    \A k \in C36_ParseCalls, m \in C36_ParseCalls :
        C36_SameInput(inst_log[k], inst_log[m]) =>
            LET x == inst_log[k].result
                y == inst_log[m].result
            IN /\ x.kind = y.kind
               /\ x.intent.action = y.intent.action
               /\ x.intent.target = y.intent.target
               /\ x.intent.parameters = y.intent.parameters
               /\ x.intent.confidence = y.intent.confidence

\* the same text and the same model answer on two objects, one with an empty
\* history and one whose history holds a different intent
C36_Witness ==
    \E k \in C36_ParseCalls, m \in C36_ParseCalls :
        LET c == inst_log[k]
            d == inst_log[m]
        IN /\ c.id # d.id
           /\ C36_SameInput(c, d)
           /\ c.after[c.id].model
           /\ c.response.kind = "dict"
           /\ c.result.kind = "returned"
           /\ c.before[c.id].intent_history = <<>>
           /\ Len(d.before[d.id].intent_history) = 1
           /\ d.before[d.id].intent_history[1].action # d.result.intent.action
           /\ c.result.intent.timestamp # d.result.intent.timestamp

\* C37: the rule classifier and the intensity extractor exist in two copies, the
\* functions of classifiers.py and the methods of LuminaOrchestrator; for every
\* normalized text both copies return the same action, target, parameters and
\* confidence and the same intensity; the function only adds source = "rule".
C37_CopiesAgree ==
    classifyCall.step = 1 =>
        /\ classifyCall.orch_out.action = classifyCall.out.action
        /\ classifyCall.orch_out.target = classifyCall.out.target
        /\ classifyCall.orch_out.parameters = classifyCall.out.parameters
        /\ classifyCall.orch_out.confidence = classifyCall.out.confidence
        /\ classifyCall.orch_intensity = classifyCall.intensity
        /\ classifyCall.out.source = "rule"
        /\ classifyCall.orch_out = [classifyCall.out EXCEPT !.source = "<absent>"]

\* a text with the keywords of two effects and an adjective: both copies take the
\* first effect of the table and the same intensity
C37_Witness ==
    /\ classifyCall.step = 1
    /\ classifyCall.text = "strong bloom and blur"
    /\ classifyCall.out.target = "blur"
    /\ classifyCall.orch_out.target = "blur"
    /\ classifyCall.out.parameters = Obj("intensity", 80)
    /\ classifyCall.orch_intensity = Num(80)

\* the last lifecycle call was a parse_intent, an initialize, a shutdown
C38_LastCall(kind) == last_op.op \in {kind, "module." \o kind}

\* the flag after each call: true after parse_intent and initialize, false after
\* shutdown
C38_LifecycleFlags ==
    entry \in {"orchestrator", "module"} =>
        /\ C38_LastCall("parse_intent") => initialized
        /\ C38_LastCall("initialize") => initialized
        /\ C38_LastCall("shutdown") => ~initialized

\* C38: parse_intent may be called in any lifecycle state. Over any sequence of
\* initialize, parse_intent and shutdown calls, on the instance or through the
\* module-level functions (which create the orchestrator when none exists), with
\* the processors the constructor installed: every parse_intent that has ended
\* returned an intent, initialized is true after every parse_intent and every
\* initialize, and false after every shutdown.
C38_ParseIntentInAnyState ==
    (/\ entry \in {"orchestrator", "module"}
     /\ \A st \in StageSet : dag_nodes[st] = "method") =>
        /\ C38_LastCall("parse_intent") => initialized
        /\ C38_LastCall("initialize") => initialized
        /\ C38_LastCall("shutdown") => ~initialized
        /\ (C38_LastCall("parse_intent") /\ pc = "idle") => result.kind = "returned"

====
